---- MODULE Spec2Model ----
(***************************************************************************)
(* Scaling-series particle filter of python-cope (src/cope/particlelib.py) *)
(* with the SE(3) helpers it uses (src/cope/SE3lib.py).                    *)
(*                                                                         *)
(* Numbers.  The program computes in floating point; the model computes    *)
(* exactly, on integers:                                                   *)
(*   - an unnormalized weight exp(-E/(2 tau)) is a natural number, 0 being *)
(*     the value the exponential underflows to;                            *)
(*   - a normalized weight vector is [num, den]: weight i is num[i]/den;   *)
(*   - a radius delta is kept by its logarithm: delta = 2^(e/12) grid      *)
(*     units, so that the zoom 2^(-1/6) is an exact step of that scale;    *)
(*   - rotation vectors and translations have one coordinate each, on an   *)
(*     integer grid; a rotation matrix is the angle it turns by, taken     *)
(*     modulo a full turn;                                                 *)
(*   - face angles, measurement angles and nor_err are naturals.           *)
(* Sequences are 1-based; bisect positions, low_bound, up_bound and the    *)
(* loop indices keep Python's 0-based values.                              *)
(***************************************************************************)
EXTENDS Integers, Sequences, FiniteSets, TLC

VARIABLES
  pc,            \* position of the running function
  particles,     \* the particle list a function works on / builds
  new_weights,   \* ComputeNormalizedWeights: unnormalized weights
  weights,       \* normalized weights [num, den]
  mesh,          \* the mesh [face_angle]: each face's angle to ref_vec
  sorted_face,   \* face-angle index [face_idx, sorted_angle]
  measurement,   \* [angle, pos_dist, nor_len] of the normal, the point, the normal
  nor_err,       \* sigma_n
  face_range,    \* FindminimumDistanceMesh: [low_bound, up_bound, read, dist, min]
  prune_percentage, \* rho, in tenths
  pruned_list,   \* Pruning_old / Pruning: the returned list
  V,             \* the region [particles, delta_rot, delta_trans]
  M,             \* particles to sample per neighborhood
  cover,         \* EvenDensityCover: its loop variables
  sigma0,        \* [rot, trans, kind]: log of the largest Cholesky entry per block
  sigma_desired, \* the same of the desired covariance
  series,        \* ScalingSeries: its local variables and what it did
  resample,      \* Pruning: c, u[0], i, k, new_list_p
  cancel,        \* the caller has asked the running driver to stop
  se3,           \* SE3lib calls: [T, out], the argument and the values returned
  exhaustive,    \* FindminimumDistanceMeshOriginal: [dist, min]
  scoring        \* loop of ComputeNormalizedWeights: [i, scored], scored the list D of each particle

vars == <<pc, particles, new_weights, weights, mesh, sorted_face, measurement,
          nor_err, face_range, prune_percentage, pruned_list, V, M, cover,
          sigma0, sigma_desired, series, resample, cancel, se3, exhaustive,
          scoring>>

(***************************************************************************)
(* Bounds of the model                                                     *)
(***************************************************************************)
MaxParticles == 3
MaxWeight == 2
MaxFaces == 3
MaxAngle == 3
MaxNorErr == 2
MaxCenters == 3
MaxM == 2
MaxTrans == 1
MaxU == 3
MaxLogDelta == 1
MaxLogRatio == 7
MaxSeriesM == 1
MaxCoord == 1
MaxSteps == 20
MaxAxis == 1
MaxQuery == 30
MaxEmitted == 4
MaxClose == 2

(***************************************************************************)
(* Constants of the program                                                *)
(***************************************************************************)
\* while not accepted and count < 5
MaxTries == 5

\* zoom = 2**(-1./6.), by its log2 in twelfths
zoom == -2

(***************************************************************************)
(* Generic helpers                                                         *)
(***************************************************************************)
Abs(x) == IF x < 0 THEN -x ELSE x

RECURSIVE SumSeq(_)
SumSeq(s) == IF s = <<>> THEN 0 ELSE Head(s) + SumSeq(Tail(s))

Range(s) == {s[i] : i \in DOMAIN s}

SeqsUpTo(S, n) == UNION {[1..k -> S] : k \in 0..n}

IsSorted(s) == \A i \in 1..(Len(s) - 1) : s[i] <= s[i + 1]

Permutations1(n) == {f \in [1..n -> 1..n] : \A i, j \in 1..n : f[i] = f[j] => i = j}

\* Python's a[lo:hi] for 0 <= lo <= hi <= len(a)
Slice(a, lo, hi) == [j \in 1..(hi - lo) |-> a[lo + j]]

(***************************************************************************)
(* normalize, ComputeNormalizedWeights                                     *)
(***************************************************************************)
\* every weight of w is zero
AllZero(w) == \A i \in DOMAIN w : w[i] = 0

\* mutant: the uniform branch forgets to divide by the length
normalize_ones(w) ==
  IF SumSeq(w) = 0
    THEN [num |-> [i \in 1..Len(w) |-> 1], den |-> 1]
    ELSE [num |-> w, den |-> SumSeq(w)]

normalize(w) ==
  IF SumSeq(w) = 0
    THEN [num |-> [i \in 1..Len(w) |-> 1], den |-> Len(w)]
    ELSE [num |-> w, den |-> SumSeq(w)]

(***************************************************************************)
(* Face-angle index query: FindminimumDistanceMesh                         *)
(***************************************************************************)
RECURSIVE bisect_right_loop(_, _, _, _)
bisect_right_loop(a, x, lo, hi) ==
  IF lo < hi
    THEN LET mid == (lo + hi) \div 2
         IN  IF x < a[mid + 1]
               THEN bisect_right_loop(a, x, lo, mid)
               ELSE bisect_right_loop(a, x, mid + 1, hi)
    ELSE lo

bisect_right(a, x) == bisect_right_loop(a, x, 0, Len(a))

RECURSIVE bisect_left_loop(_, _, _, _)
bisect_left_loop(a, x, lo, hi) ==
  IF lo < hi
    THEN LET mid == (lo + hi) \div 2
         IN  IF a[mid + 1] < x
               THEN bisect_left_loop(a, x, mid + 1, hi)
               ELSE bisect_left_loop(a, x, lo, mid)
    ELSE lo

\* mutant: the lower search uses the right-hand bisection
bisect_left_right(a, x) == bisect_right_loop(a, x, 0, Len(a))

bisect_left(a, x) == bisect_left_loop(a, x, 0, Len(a))

\* idx = bisect.bisect_right(sorted_angle, angle)
QueryIdx(sorted_angle, angle) == bisect_right(sorted_angle, angle)

\* mutant: the upper bound is idx itself, without the upper search
UpBound_idx(sorted_angle, angle, ne) == QueryIdx(sorted_angle, angle)

\* mutant: the upper search bisects the whole array, not the slice from idx
UpBound_whole(sorted_angle, angle, ne) ==
  LET idx == QueryIdx(sorted_angle, angle)
  IN  IF idx >= Len(sorted_angle)
        THEN idx
        ELSE idx + bisect_right(sorted_angle,
                                sorted_angle[idx + 1] + sorted_angle[idx + 1] - angle + ne)

UpBound(sorted_angle, angle, ne) ==
  LET idx == QueryIdx(sorted_angle, angle)
  IN  IF idx >= Len(sorted_angle)
        THEN idx
        ELSE idx + bisect_right(Slice(sorted_angle, idx, Len(sorted_angle)),
                                sorted_angle[idx + 1] + sorted_angle[idx + 1] - angle + ne)

\* mutant: the lower search starts at the lower end of the band, without the
\* step back of one position
LowBound_band(sorted_angle, angle, ne) ==
  LET idx == QueryIdx(sorted_angle, angle)
  IN  IF idx = 0
        THEN 0
        ELSE bisect_right(Slice(sorted_angle, 0, idx), angle - ne)

LowBound(sorted_angle, angle, ne) ==
  LET idx == QueryIdx(sorted_angle, angle)
  IN  IF idx = 0
        THEN 0
        ELSE bisect_left(Slice(sorted_angle, 0, idx),
                         sorted_angle[idx] - (sorted_angle[idx] - angle) - ne) - 1

\* range(low_bound, up_bound)
PyRange(lo, hi) == IF hi > lo THEN [j \in 1..(hi - lo) |-> lo + j - 1] ELSE <<>>

\* a[i] with Python's indexing: a negative i counts from the end
PyIndex(a, i) == IF i >= 0 THEN a[i + 1] ELSE a[Len(a) + i + 1]

\* A distance is <<kind, v>>: <<"num", v>> is the number v, <<"inf", 0>> and
\* <<"nan", 0>> are what the division by nor_err = 0 gives.
\* CalculateDistanceFace, squared and times nor_err^2, positions in units of
\* pos_err; the angle between the two normals is the difference of their
\* angles to ref_vec.
\* mutant: the angular term is the inner product of the normals, largest
\* where they agree, and not its arccos
CalculateDistanceFace_inner(face_angle, pos_dist, angle, ne) ==
  LET diff_angle == MaxAngle + 1 - Abs(face_angle - angle)
  IN  IF ne = 0
        THEN IF diff_angle = 0 THEN <<"nan", 0>> ELSE <<"inf", 0>>
        ELSE <<"num", pos_dist * pos_dist * ne * ne + diff_angle * diff_angle>>

CalculateDistanceFace(face_angle, pos_dist, angle, ne) ==
  LET diff_angle == Abs(face_angle - angle)
  IN  IF ne = 0
        THEN IF diff_angle = 0 THEN <<"nan", 0>> ELSE <<"inf", 0>>
        ELSE <<"num", pos_dist * pos_dist * ne * ne + diff_angle * diff_angle>>

\* x < m as Python compares floats
FloatLess(x, m) ==
  IF x[1] = "nan" \/ m[1] = "nan" THEN FALSE
  ELSE IF x[1] = "inf" THEN FALSE
  ELSE IF m[1] = "inf" THEN TRUE
  ELSE x[2] < m[2]

RECURSIVE PyMinFrom(_, _)
PyMinFrom(m, rest) ==
  IF rest = <<>> THEN m
  ELSE PyMinFrom(IF FloatLess(Head(rest), m) THEN Head(rest) ELSE m, Tail(rest))

\* min(dist); min of an empty list raises ValueError
PyMin(dist) ==
  IF dist = <<>> THEN <<"ValueError", 0>> ELSE PyMinFrom(Head(dist), Tail(dist))

\* m: mesh [face_angle], sf: sorted_face [face_idx, sorted_angle],
\* meas: measurement [angle, pos_dist, nor_len], ne: nor_err
FaceRange(m, sf, meas, ne) ==
  LET lo   == LowBound(sf.sorted_angle, meas.angle, ne)
      hi   == UpBound(sf.sorted_angle, meas.angle, ne)
      read == PyRange(lo, hi)
      face == [j \in DOMAIN read |-> PyIndex(sf.face_idx, read[j])]
      dist == [j \in DOMAIN read |->
                 IF meas.nor_len = 0
                   THEN <<"nan", 0>>   \* line 156 divides by norm(nor_measurement)
                   ELSE CalculateDistanceFace(m.face_angle[face[j]],
                                              meas.pos_dist[face[j]], meas.angle, ne)]
  IN  [low_bound |-> lo, up_bound |-> hi, read |-> read, face |-> face,
       dist |-> dist, min |-> PyMin(dist)]

NoRange == [low_bound |-> 0, up_bound |-> 0, read |-> <<>>, face |-> <<>>,
            dist |-> <<>>, min |-> <<"none", 0>>]

FindminimumDistanceMesh ==
  /\ pc = "FindminimumDistanceMesh"
  /\ face_range' = FaceRange(mesh, sorted_face, measurement, nor_err)
  /\ pc' = IF face_range'.min[1] = "ValueError" THEN "ValueError" ELSE "done"
  /\ UNCHANGED <<particles, new_weights, weights, mesh, sorted_face, measurement,
                 nor_err, prune_percentage, pruned_list, V, M, cover, sigma0,
                 sigma_desired, series, resample, cancel, se3, exhaustive, scoring>>

NoExhaustive == [dist |-> <<>>, min |-> <<"none", 0>>]

\* lines 141-146: the distance to every face of the mesh, in the order of the
\* mesh, and the least of them
FindminimumDistanceMeshOriginal ==
  /\ pc = "FindminimumDistanceMeshOriginal"
  /\ LET dist == [f \in DOMAIN mesh.face_angle |->
                    IF measurement.nor_len = 0
                      THEN <<"nan", 0>>
                      ELSE CalculateDistanceFace(mesh.face_angle[f],
                                                 measurement.pos_dist[f],
                                                 measurement.angle, nor_err)]
     IN  exhaustive' = [dist |-> dist, min |-> PyMin(dist)]
  /\ pc' = IF exhaustive'.min[1] = "ValueError" THEN "ValueError"
           ELSE "FindminimumDistanceMesh"
  /\ UNCHANGED <<particles, new_weights, weights, mesh, sorted_face, measurement,
                 nor_err, face_range, prune_percentage, pruned_list, V, M, cover,
                 sigma0, sigma_desired, series, resample, cancel, se3, scoring>>

\* The unnormalized weights exp(-0.5*total_energy/tau) a mesh and a measurement
\* list can give to the particles: non-negative, one per particle, and equal
\* for equal particles (the energy is a function of the particle).  The
\* distances the energy sums are those of FindminimumDistanceMesh below.
UnnormalizedWeights(ps) ==
  {[i \in 1..Len(ps) |-> f[ps[i]]] : f \in [Range(ps) -> 0..MaxWeight]}

\* nan, as a weight: below every number, so that w > x is false of it
NaN == 0 - 1

\* What the distances make of the weights of the particles ps: when
\* range(low_bound, up_bound) is empty, as on a mesh without faces, min([])
\* raises ValueError; a measurement normal of length zero
\* makes every distance nan (line 156), and with it every energy and weight.
Weighting(ps) ==
  IF ps = <<>> THEN "num"
  ELSE IF PyRange(LowBound(sorted_face.sorted_angle, measurement.angle, nor_err),
                  UpBound(sorted_face.sorted_angle, measurement.angle, nor_err)) = <<>>
    THEN "ValueError"
  ELSE IF measurement.nor_len = 0 THEN "nan"
  ELSE "num"

\* new_weights of lines 107-116
NewWeights(ps) ==
  IF Weighting(ps) = "nan"
    THEN {[i \in 1..Len(ps) |-> NaN]}
    ELSE UnnormalizedWeights(ps)

\* normalize(new_weights); a sum with a nan in it is nan, not 0, and every
\* weight divided by it is nan
NormalizedWeights(w) ==
  IF \E i \in DOMAIN w : w[i] = NaN
    THEN [num |-> [i \in DOMAIN w |-> NaN], den |-> 1]
    ELSE normalize(w)

ComputeNormalizedWeights ==
  /\ pc = "ComputeNormalizedWeights"
  /\ IF Weighting(particles) = "ValueError"
       THEN /\ pc' = "ValueError"
            /\ UNCHANGED <<new_weights, weights>>
       ELSE /\ \E w \in NewWeights(particles) :
                  /\ new_weights' = w
                  /\ weights' = NormalizedWeights(w)
            /\ pc' = "done"
  /\ UNCHANGED <<particles, mesh, sorted_face, measurement, nor_err, face_range,
                 prune_percentage, pruned_list, V, M, cover, sigma0, sigma_desired,
                 series, resample, cancel, se3, exhaustive, scoring>>

\* The measurement in the body frame of the particle p (lines 110-114): the
\* inverse of the identity leaves it as it is; another particle may carry it
\* to any angle and any distances, and keeps the length of its normal.
TransformedMeasurements(p) ==
  IF p = [rot |-> 0, trans |-> 0]
    THEN {measurement}
    ELSE [angle : 0..MaxAngle,
          pos_dist : [DOMAIN measurement.pos_dist -> {0, 2}],
          nor_len : {measurement.nor_len}]

\* np.exp(-0.5*total_energy/tau) of one measurement at a distance d, tau > 0,
\* with MaxWeight standing for the weight 1.0: exp(-0) is 1.0 exactly, exp(-inf)
\* is 0, exp(nan) is nan, and a positive energy gives a weight of at most 1.0.
WeightOfDistance(d) ==
  IF d[1] = "nan" THEN {NaN}
  ELSE IF d[1] = "inf" THEN {0}
  ELSE IF d[2] = 0 THEN {MaxWeight}
  ELSE 0..MaxWeight

\* ComputeNormalizedWeights with the energies taken from the distances of
\* FindminimumDistanceMesh; face_range is that of the last particle.
ComputeNormalizedWeightsOfDistances ==
  /\ pc = "compute_weights"
  /\ \E D \in [Range(particles) -> UNION {TransformedMeasurements(p) : p \in Range(particles)}] :
       /\ \A p \in Range(particles) : D[p] \in TransformedMeasurements(p)
       /\ LET fr == [p \in Range(particles) |->
                       FaceRange(mesh, sorted_face, D[p], nor_err)]
          IN  IF \E p \in Range(particles) : fr[p].min[1] = "ValueError"
                THEN /\ pc' = "ValueError"
                     /\ UNCHANGED <<new_weights, weights, face_range>>
                ELSE /\ \E f \in [Range(particles) -> (0..MaxWeight) \cup {NaN}] :
                          /\ \A p \in Range(particles) : f[p] \in WeightOfDistance(fr[p].min)
                          /\ new_weights' = [i \in 1..Len(particles) |-> f[particles[i]]]
                          /\ weights' = NormalizedWeights(new_weights')
                     /\ face_range' = IF particles = <<>> THEN NoRange
                                      ELSE fr[particles[Len(particles)]]
                     /\ pc' = "done"
  /\ UNCHANGED <<particles, mesh, sorted_face, measurement, nor_err, prune_percentage,
                 pruned_list, V, M, cover, sigma0, sigma_desired, series, resample,
                 cancel, se3, exhaustive, scoring>>

(***************************************************************************)
(* Threshold pruner: Pruning_old                                           *)
(***************************************************************************)
RECURSIVE MaxWeightFrom(_, _)
MaxWeightFrom(maxweight, ws) ==
  IF ws = <<>> THEN maxweight
  ELSE MaxWeightFrom(IF Head(ws) > maxweight THEN Head(ws) ELSE maxweight, Tail(ws))

\* mutant: the comparison with the threshold is not strict
RECURSIVE KeepAbove_ge(_, _, _, _)
KeepAbove_ge(ps, ws, rho, maxweight) ==
  IF ps = <<>> THEN <<>>
  ELSE (IF Head(ws) * 10 >= rho * maxweight THEN <<Head(ps)>> ELSE <<>>)
         \o KeepAbove_ge(Tail(ps), Tail(ws), rho, maxweight)

\* lines 207-210: threshold = prune_percentage*maxweight, rho in tenths
RECURSIVE KeepAbove(_, _, _, _)
KeepAbove(ps, ws, rho, maxweight) ==
  IF ps = <<>> THEN <<>>
  ELSE (IF Head(ws) * 10 > rho * maxweight THEN <<Head(ps)>> ELSE <<>>)
         \o KeepAbove(Tail(ps), Tail(ws), rho, maxweight)

\* ps: list_particles, ws: the weights' numerators (one denominator, > 0),
\* rho: prune_percentage in tenths.  The length assertion is the caller's guard.
Pruning_old(ps, ws, rho) == KeepAbove(ps, ws, rho, MaxWeightFrom(0, ws))

(***************************************************************************)
(* Homogeneous transformations: TransformInv                               *)
(***************************************************************************)
\* A matrix is the sequence of its rows.
Identity(n) == [i \in 1..n |-> [j \in 1..n |-> IF i = j THEN 1 ELSE 0]]

\* A.T
Transpose(A) == [j \in 1..Len(A[1]) |-> [i \in 1..Len(A) |-> A[i][j]]]

\* -A
Neg(A) == [i \in 1..Len(A) |-> [j \in 1..Len(A[i]) |-> 0 - A[i][j]]]

\* the inner product of two vectors of length 3 or 4
Inner(a, b) ==
  a[1] * b[1] + a[2] * b[2] + a[3] * b[3] + (IF Len(a) = 4 THEN a[4] * b[4] ELSE 0)

\* np.dot of a matrix and a vector, and of two matrices
MatVec(A, v) == [i \in 1..Len(A) |-> Inner(A[i], v)]
MatMul(A, B) == [i \in 1..Len(A) |-> MatVec(Transpose(B), A[i])]

\* T[:3,:3] and T[:3,3]
Rot3(T) == [i \in 1..3 |-> [j \in 1..3 |-> T[i][j]]]
Trans3(T) == [i \in 1..3 |-> T[i][4]]

\* np.identity(4) with its rotation block set to R and its translation to p
SetBlocks(R, p) ==
  [i \in 1..4 |-> [j \in 1..4 |->
     IF i <= 3 /\ j <= 3 THEN R[i][j]
     ELSE IF i <= 3 THEN p[i]
     ELSE Identity(4)[i][j]]]

\* mutant: the translation keeps its sign
TransformInv_pos(T) ==
  LET R == Transpose(Rot3(T))
      p == Trans3(T)
  IN  SetBlocks(R, MatVec(R, p))

TransformInv(T) ==
  LET R == Transpose(Rot3(T))
      p == Trans3(T)
  IN  SetBlocks(R, MatVec(Neg(R), p))

NoSE3 == [T |-> <<>>, out |-> <<>>]

\* TransformInv(T), and then TransformInv of what that returned; the function
\* writes to the new array T_inv only
TransformInvCall ==
  /\ pc = "TransformInv"
  /\ LET arg == IF se3.out = <<>> THEN se3.T ELSE se3.out[Len(se3.out)]
     IN  se3' = [se3 EXCEPT !.out = Append(se3.out, TransformInv(arg))]
  /\ pc' = IF Len(se3.out) >= 1 THEN "done" ELSE "TransformInv"
  /\ UNCHANGED <<particles, new_weights, weights, mesh, sorted_face, measurement,
                 nor_err, face_range, prune_percentage, pruned_list, V, M, cover,
                 sigma0, sigma_desired, series, resample, cancel, exhaustive, scoring>>

(***************************************************************************)
(* Rotation logarithm and exponential in fixed point: RotToVec, VecToRot   *)
(***************************************************************************)
\* Entries of a rotation matrix are integers over FixOne; angles and rotation
\* vectors are in microradians.  A matrix C is the record [m, angle]: m holds
\* the entries, angle is arccos((trace-1)/2), which double precision resolves
\* far below the resolution of m.
FixOne == 4 * 10000

\* np.pi, in microradians
PiMicro == 3141593

\* epsilon = 0.0001 and epsilon2 = 0.001, by their inverses
EpsilonInv == 10000
Epsilon2Inv == 1000

\* abs(x) < 1/inv, for a fixed-point x
LessThan(x, inv) == Abs(x) * inv < FixOne

\* the largest r of lo..hi with r*r <= n
RECURSIVE IsqrtBetween(_, _, _)
IsqrtBetween(n, lo, hi) ==
  IF lo >= hi THEN lo
  ELSE LET mid == (lo + hi + 1) \div 2
       IN  IF mid * mid <= n THEN IsqrtBetween(n, mid, hi)
           ELSE IsqrtBetween(n, lo, mid - 1)

Isqrt(n) == IsqrtBetween(n, 0, 46340)

\* np.sqrt of a fixed-point number
SqrtFix(x) == Isqrt(x * FixOne)

\* a/b rounded toward zero
Quot(a, b) ==
  IF (a < 0) = (b < 0) THEN Abs(a) \div Abs(b) ELSE 0 - (Abs(a) \div Abs(b))

\* a/b of two fixed-point numbers; numpy gives inf or nan for b = 0
DivFix(a, b) == IF b = 0 THEN 0 ELSE Quot(a * FixOne, b)

\* angle*x: an angle in microradians times a fixed-point number
Scale(angle, x) ==
  LET hi == angle \div 1000
      lo == angle % 1000
      v == (hi * Abs(x)) \div (FixOne \div 1000) + (lo * Abs(x)) \div FixOne
  IN  IF x < 0 THEN 0 - v ELSE v

\* the value RotToVec returns: the vector, the branch that made it, and
\* whether a division by zero went into it
Returned(angle, axis, branch, divisors) ==
  [vec |-> [i \in 1..3 |-> Scale(angle, axis[i])],
   branch |-> branch,
   undefined |-> \E i \in DOMAIN divisors : divisors[i] = 0]

\* lines 180-206: the axis from the largest diagonal term dd and the two
\* off-diagonal terms e1, e2 that go with it, at position k of the axis
PiAxis(k, dd, e1, e2) ==
  IF dd * EpsilonInv < FixOne
    THEN [axis |-> [i \in 1..3 |-> IF i = k THEN 0 ELSE SqrtFix(FixOne \div 2)],
          divisors |-> <<>>]
    ELSE LET r == SqrtFix(dd)
             others == <<DivFix(e1, r), DivFix(e2, r)>>
         IN  [axis |-> [i \in 1..3 |-> IF i = k THEN r
                                      ELSE IF i = (IF k = 1 THEN 2 ELSE 1)
                                        THEN others[1] ELSE others[2]],
              divisors |-> <<r>>]

\* mutant: the largest diagonal term is not looked for, the first one is used
PiBranch_first(m) ==
  LET xx == (m[1][1] + FixOne) \div 2
      xy == Quot(m[1][2] + m[2][1], 4)
      xz == Quot(m[1][3] + m[3][1], 4)
      r == SqrtFix(xx)
  IN  [axis |-> <<r, DivFix(xy, r), DivFix(xz, r)>>, divisors |-> <<r>>]

\* lines 173-206
PiBranch(m) ==
  LET xx == (m[1][1] + FixOne) \div 2
      yy == (m[2][2] + FixOne) \div 2
      zz == (m[3][3] + FixOne) \div 2
      xy == Quot(m[1][2] + m[2][1], 4)
      xz == Quot(m[1][3] + m[3][1], 4)
      yz == Quot(m[2][3] + m[3][2], 4)
  IN  IF xx > yy /\ xx > zz THEN PiAxis(1, xx, xy, xz)
      ELSE IF yy > zz THEN PiAxis(2, yy, xy, yz)
      ELSE PiAxis(3, zz, xz, yz)

\* the matrix log of C (lines 164-218)
RotToVecFixed(C) ==
  LET m == C.m
  IN  IF /\ LessThan(m[1][2] - m[2][1], EpsilonInv)
         /\ LessThan(m[1][3] - m[3][1], EpsilonInv)
         /\ LessThan(m[2][3] - m[3][2], EpsilonInv)
        THEN IF /\ LessThan(m[1][2] + m[2][1], Epsilon2Inv)
                /\ LessThan(m[1][3] + m[3][1], Epsilon2Inv)
                /\ LessThan(m[2][3] + m[3][2], Epsilon2Inv)
                /\ LessThan(m[1][1] + m[2][2] + m[3][3] - 3 * FixOne, Epsilon2Inv)
               THEN Returned(0, <<0, 0, 0>>, "identity", <<>>)
               ELSE LET a == PiBranch(m)
                    IN  Returned(PiMicro, a.axis, "pi", a.divisors)
        ELSE LET d1 == m[3][2] - m[2][3]
                 d2 == m[1][3] - m[3][1]
                 d3 == m[2][1] - m[1][2]
                 s0 == Isqrt(d1 * d1 + d2 * d2 + d3 * d3)
                 s == IF s0 * Epsilon2Inv < FixOne THEN FixOne ELSE s0
             IN  Returned(C.angle, <<DivFix(d1, s), DivFix(d2, s), DivFix(d3, s)>>,
                          "generic", <<s>>)

\* Hat(vec) of a vector of 3
Hat(vec) ==
  <<<<0, 0 - vec[3], vec[2]>>, <<vec[3], 0, 0 - vec[1]>>, <<0 - vec[2], vec[1], 0>>>>

\* np.sin(nr) and np.cos(nr) in fixed point, for nr within a milliradian of
\* 0 or of pi, where sin is the distance to 0 or pi and cos is 1 or -1 to
\* the resolution of the matrix
SinFix(nr) ==
  IF 2 * nr < PiMicro THEN (nr * FixOne) \div 1000000
  ELSE ((PiMicro - nr) * FixOne) \div 1000000

CosFix(nr) == IF 2 * nr < PiMicro THEN FixOne ELSE 0 - FixOne

\* the rotation matrix of the rotation vector phi (lines 226-236), for phi
\* along a coordinate axis: its norm is then the sum of the absolute values
VecToRotFixed(phi) ==
  LET nr == Abs(phi[1]) + Abs(phi[2]) + Abs(phi[3])
  IN  IF nr = 0
        THEN [m |-> [i \in 1..3 |-> [j \in 1..3 |-> FixOne * Identity(3)[i][j]]],
              angle |-> 0]
        ELSE LET K == Hat([i \in 1..3 |-> Quot(phi[i], nr)])
                 K2 == MatMul(K, K)
             IN  [m |-> [i \in 1..3 |-> [j \in 1..3 |->
                           FixOne * Identity(3)[i][j] + SinFix(nr) * K[i][j]
                             + (FixOne - CosFix(nr)) * K2[i][j]]],
                  angle |-> nr]

\* VecToRot(phi)
VecToRotCall ==
  /\ pc = "VecToRot"
  /\ se3' = [se3 EXCEPT !.out = <<VecToRotFixed(se3.T)>>]
  /\ pc' = "RotToVec"
  /\ UNCHANGED <<particles, new_weights, weights, mesh, sorted_face, measurement,
                 nor_err, face_range, prune_percentage, pruned_list, V, M, cover,
                 sigma0, sigma_desired, series, resample, cancel, exhaustive, scoring>>

\* RotToVec(C), of the matrix VecToRot returned or of the matrix given
RotToVecCall ==
  /\ pc = "RotToVec"
  /\ LET C == IF se3.out = <<>> THEN se3.T ELSE se3.out[1]
     IN  se3' = [se3 EXCEPT !.out = Append(se3.out, RotToVecFixed(C))]
  /\ pc' = "done"
  /\ UNCHANGED <<particles, new_weights, weights, mesh, sorted_face, measurement,
                 nor_err, face_range, prune_percentage, pruned_list, V, M, cover,
                 sigma0, sigma_desired, series, resample, cancel, exhaustive, scoring>>

(***************************************************************************)
(* SE(3) helpers on the one-coordinate grid                                *)
(***************************************************************************)
\* np.pi in grid units of the rotation coordinate
PiU == 3

(***************************************************************************)
(* The loop of ComputeNormalizedWeights over the particles                 *)
(***************************************************************************)
NoScoring == [i |-> 0, scored |-> <<>>]

\* an angle brought back to [0, pi], pi being MaxAngle units: arccos of a dot
\* product of unit vectors
Fold(x) ==
  LET y == x % (2 * MaxAngle)
  IN  IF y > MaxAngle THEN 2 * MaxAngle - y ELSE y

\* lines 112-114: the measurement d in the body frame of the particle p, with
\* T the inverse of p: the normal is turned back by the rotation of p, the
\* point is moved back by its translation (two units of distance each)
InBodyFrame(p, d) ==
  [angle    |-> Fold(d.angle - (p.rot * MaxAngle) \div PiU),
   pos_dist |-> [f \in DOMAIN d.pos_dist |-> Abs(d.pos_dist[f] - 2 * p.trans)],
   nor_len  |-> d.nor_len]

\* mutant: D is the list of the caller itself
deepcopy_alias(x) == [shared |-> TRUE, val |-> x]

\* line 111, copy.deepcopy(measurements): a new object of the same value that
\* shares nothing with x
deepcopy(x) == [shared |-> FALSE, val |-> x]

\* lines 109-116: one pass of the loop over the particles.  The assignments of
\* lines 113-114 write into D; they reach the list of the caller only when D
\* shares its elements.
ScoreParticle ==
  /\ pc = "score_particle"
  /\ scoring.i < Len(particles)
  /\ LET p  == particles[scoring.i + 1]
         D  == deepcopy(measurement)
         d  == InBodyFrame(p, D.val)
         fr == FaceRange(mesh, sorted_face, d, nor_err)
     IN  /\ measurement' = IF D.shared THEN d ELSE measurement
         /\ IF fr.min[1] = "ValueError"
              THEN /\ pc' = "ValueError"
                   /\ UNCHANGED <<new_weights, scoring, face_range>>
              ELSE /\ \E w \in WeightOfDistance(fr.min) :
                        new_weights' = Append(new_weights, w)
                   /\ scoring' = [i |-> scoring.i + 1,
                                  scored |-> Append(scoring.scored, d)]
                   /\ face_range' = fr
                   /\ pc' = pc
  /\ UNCHANGED <<particles, weights, mesh, sorted_face, nor_err, prune_percentage,
                 pruned_list, V, M, cover, sigma0, sigma_desired, series, resample,
                 cancel, se3, exhaustive>>

\* line 118: return normalize(new_weights)
ScoreReturn ==
  /\ pc = "score_particle"
  /\ scoring.i = Len(particles)
  /\ weights' = NormalizedWeights(new_weights)
  /\ pc' = "done"
  /\ UNCHANGED <<particles, new_weights, mesh, sorted_face, measurement, nor_err,
                 face_range, prune_percentage, pruned_list, V, M, cover, sigma0,
                 sigma_desired, series, resample, cancel, se3, exhaustive, scoring>>

TwoPi == 2 * PiU

\* VecToRot: the rotation matrix of the rotation vector phi; turning by phi
\* and by phi plus a full turn give the same matrix
VecToRot(phi) == phi % TwoPi

\* RotToVec: the rotation vector of the matrix C, of angle at most pi; the
\* half turn gives +pi
RotToVec(C) == IF C <= PiU THEN C ELSE C - TwoPi

RECURSIVE Pow(_, _)
Pow(b, n) == IF n <= 0 THEN 1 ELSE b * Pow(b, n - 1)

\* d < 2^(e/12) and d <= 2^(e/12), for a natural d
LtRadius(d, e) == d = 0 \/ (e >= 0 /\ Pow(d, 12) < Pow(2, e))
LeRadius(d, e) == d = 0 \/ (e >= 0 /\ Pow(d, 12) <= Pow(2, e))

\* np.linalg.norm(point-center) < radius, the radius given by its logarithm
IsInside(point, center, radius) == LtRadius(Abs(point - center), radius)

(***************************************************************************)
(* Region sampler: EvenDensityCover                                        *)
(***************************************************************************)
Region(ps, delta_rot, delta_trans) ==
  [particles |-> ps, delta_rot |-> delta_rot, delta_trans |-> delta_trans]

\* np.random.uniform(-1,1)*delta: the grid points of [-delta, delta)
UniformTimes(delta) ==
  LET b == Pow(2, (IF delta > 0 THEN delta + 11 ELSE 0) \div 12)
  IN  {d \in (-b)..b : IF d < 0 THEN LeRadius(-d, delta) ELSE LtRadius(d, delta)}

\* p lies in the ball of the particle center
InBall(p, center, delta_rot, delta_trans) ==
  /\ IsInside(RotToVec(p.rot), RotToVec(center.rot), delta_rot)
  /\ IsInside(p.trans, center.trans, delta_trans)

\* mutant: the particles already in the ball are not counted
NumExisting_none(ps, center, delta_rot, delta_trans) == 0

\* num_existing of lines 58-61
NumExisting(ps, center, delta_rot, delta_trans) ==
  Cardinality({j \in DOMAIN ps : InBall(ps[j], center, delta_rot, delta_trans)})

\* the loop of lines 70-76: k runs over range(i-1) and the test reads p, the
\* variable the loop of line 59 left bound to the last particle it visited
Accepted(i, p, region) ==
  ~ \E k \in 0..(i - 2) :
       InBall(p, region.particles[k + 1], region.delta_rot, region.delta_trans)

\* mutant: one try more
MoreTries_le(count) == count <= MaxTries

\* line 65: while not accepted and count < 5, after a rejected draw
MoreTries(count) == count < MaxTries

NoCover == [i |-> 0, quota |-> 0, m |-> 0, count |-> 0, accepted |-> FALSE,
            p |-> <<>>, new_vec |-> <<>>, ret |-> "done", draws |-> 0,
            added |-> <<>>]

\* draws counts the candidates drawn at lines 66-67 since the cover was entered
\* added[c + 1] counts the particles appended at line 81 for center c

\* lines 50-53: entered with the return position ret
CoverEnter(ret) ==
  /\ particles' = <<>>
  /\ cover' = [NoCover EXCEPT !.ret = ret]
  /\ pc' = "cover_center"

\* lines 54-62: the next center, its count of existing particles and its quota
CoverCenter ==
  /\ pc = "cover_center"
  /\ cover.i < Len(V.particles)
  /\ LET center == V.particles[cover.i + 1]
         num_existing == NumExisting(particles, center, V.delta_rot, V.delta_trans)
         quota == M - num_existing
         p == IF particles = <<>> THEN cover.p ELSE <<particles[Len(particles)]>>
     IN  IF quota > 0
           THEN /\ cover' = [cover EXCEPT !.quota = quota, !.m = 0, !.count = 0,
                                          !.accepted = FALSE, !.p = p,
                                          !.added = Append(cover.added, 0)]
                /\ pc' = "cover_draw"
           ELSE /\ cover' = [cover EXCEPT !.i = cover.i + 1, !.p = p,
                                          !.added = Append(cover.added, 0)]
                /\ pc' = "cover_center"
  /\ UNCHANGED <<particles, new_weights, weights, mesh, sorted_face, measurement,
                 nor_err, face_range, prune_percentage, pruned_list, V, M, sigma0,
                 sigma_desired, series, resample, cancel, se3, exhaustive, scoring>>

\* lines 65-81: one pass of the while loop, for slot m of center i
CoverDraw ==
  /\ pc = "cover_draw"
  /\ LET center == V.particles[cover.i + 1]
         center_vec_rot == RotToVec(center.rot)
         center_vec_trans == center.trans
     IN  \E dr \in UniformTimes(V.delta_rot), dt \in UniformTimes(V.delta_trans) :
           LET new_vec_rot == dr + center_vec_rot
               new_vec_trans == dt + center_vec_trans
               new_p == [rot |-> VecToRot(new_vec_rot), trans |-> new_vec_trans]
               count == cover.count + 1
               drawn == [cover EXCEPT !.count = count, !.draws = cover.draws + 1]
               draw(acc) == <<[rot |-> new_vec_rot, trans |-> new_vec_trans,
                               i |-> cover.i, accepted |-> acc]>>
               nextslot(c) ==
                 IF c.m + 1 < c.quota
                   THEN /\ cover' = [c EXCEPT !.m = c.m + 1, !.count = 0,
                                              !.accepted = FALSE]
                        /\ pc' = "cover_draw"
                   ELSE /\ cover' = [c EXCEPT !.i = c.i + 1, !.m = c.m + 1]
                        /\ pc' = "cover_center"
           IN  IF cover.i - 1 > 0 /\ cover.p = <<>>
                 THEN /\ pc' = "NameError"
                      /\ cover' = [drawn EXCEPT !.accepted = TRUE]
                      /\ UNCHANGED particles
                 ELSE LET accepted == Accepted(cover.i, cover.p[1], V)
                      IN  IF accepted
                            THEN /\ particles' = Append(particles, new_p)
                                 /\ nextslot([drawn EXCEPT !.accepted = TRUE,
                                                            !.new_vec = draw(TRUE),
                                                            !.added[cover.i + 1] = @ + 1])
                            ELSE /\ UNCHANGED particles
                                 /\ IF MoreTries(count)
                                      THEN /\ cover' = [drawn EXCEPT !.accepted = FALSE,
                                                                      !.new_vec = draw(FALSE)]
                                           /\ pc' = "cover_draw"
                                      ELSE nextslot([drawn EXCEPT !.accepted = FALSE,
                                                                  !.new_vec = draw(FALSE)])
  /\ UNCHANGED <<new_weights, weights, mesh, sorted_face, measurement, nor_err,
                 face_range, prune_percentage, pruned_list, V, M, sigma0,
                 sigma_desired, series, resample, cancel, se3, exhaustive, scoring>>

\* line 82
CoverReturn ==
  /\ pc = "cover_center"
  /\ cover.i >= Len(V.particles)
  /\ pc' = cover.ret
  /\ UNCHANGED <<particles, new_weights, weights, mesh, sorted_face, measurement,
                 nor_err, face_range, prune_percentage, pruned_list, V, M, cover,
                 sigma0, sigma_desired, series, resample, cancel, se3, exhaustive,
                 scoring>>

(***************************************************************************)
(* Scaling-series driver: ScalingSeries                                    *)
(***************************************************************************)
\* log2 of Volume(radius, dim), in twelfths, less the term log2 of
\* pi^(dim/2)/gamma(dim/2+1), which is the same for every radius
Volume(radius, dim) == dim * radius

\* np.round(a/b) for b > 0: to the nearest integer, a tie to the even one
Round(a, b) ==
  LET q == a \div b
      r == a % b
  IN  IF 2 * r < b THEN q
      ELSE IF 2 * r > b THEN q + 1
      ELSE IF q % 2 = 0 THEN q ELSE q + 1

Max2(a, b) == IF a >= b THEN a ELSE b

\* lines 298-300; a difference of Volume is 12 times a log2 of a ratio
IterationCount(delta_rot, delta_trans, delta_desired_rot, delta_desired_trans) ==
  LET N_rot == Volume(delta_rot, 3) - Volume(delta_desired_rot, 3)
      N_trans == Volume(delta_trans, 3) - Volume(delta_desired_trans, 3)
  IN  Round(Max2(N_rot, N_trans), 12)

\* delta*zoom
Shrink(delta) == delta + zoom

\* mutant: the temperature follows the rotation radius
Temperature_rot(sr) == 2 * (sr.delta_rot - sr.delta_desired_rot)

\* (delta_trans/delta_desired_trans)**(2./1.), by its log2 in twelfths
Temperature(sr) == 2 * (sr.delta_trans - sr.delta_desired_trans)

\* mutant: the region keeps the radii it was first given
NextRegion_stale(ps, sr) == Region(ps, V.delta_rot, V.delta_trans)

\* mutant: the region is built from the whole cover, not from the survivors
NextRegion_cover(ps, sr) == Region(particles, sr.delta_rot, sr.delta_trans)

\* line 317
NextRegion(ps, sr) == Region(ps, sr.delta_rot, sr.delta_trans)

\* mutant: the loop runs once more
MoreIterations_le(sr) == sr.n <= sr.N

\* for n in range(N)
MoreIterations(sr) == sr.n < sr.N

\* the radii a region holds
Radii(region) == [delta_rot |-> region.delta_rot, delta_trans |-> region.delta_trans]

NoSeries == [delta_rot |-> 0, delta_trans |-> 0, delta_desired_rot |-> 0,
             delta_desired_trans |-> 0, N |-> 0, n |-> 0, tau |-> 0,
             regions |-> <<>>, taus |-> <<>>, covers |-> 0, returned |-> <<>>,
             zero_sum |-> FALSE, calls |-> <<>>]

\* zero_sum records that normalize took its sum_weights == 0 branch in an
\* iteration; the code itself keeps no such record
\* calls lists, in order, the functions of particlelib ScalingSeries has called
\* np.linalg.cholesky of the two diagonal blocks (lines 294-297) raises
\* LinAlgError when a block is not square or not positive definite.  A matrix
\* is "pd" (6x6, positive definite), "blocks_pd" (6x6, not positive definite,
\* both diagonal blocks positive definite), "not_pd" (a diagonal block is not
\* positive definite) or "not_square".
CholeskyRaises(sigma) == sigma.kind \in {"not_pd", "not_square"}

\* lines 294-297 on a matrix whose blocks have no Cholesky factor
ScalingSeriesRaise ==
  /\ pc = "ScalingSeries"
  /\ CholeskyRaises(sigma0) \/ CholeskyRaises(sigma_desired)
  /\ pc' = "LinAlgError"
  /\ UNCHANGED <<particles, new_weights, weights, mesh, sorted_face, measurement,
                 nor_err, face_range, prune_percentage, pruned_list, V, M, cover,
                 sigma0, sigma_desired, series, resample, cancel, se3, exhaustive,
                 scoring>>

\* lines 293-302
ScalingSeriesStart ==
  /\ pc = "ScalingSeries"
  /\ ~ (CholeskyRaises(sigma0) \/ CholeskyRaises(sigma_desired))
  /\ LET delta_rot == sigma0.rot
         delta_trans == sigma0.trans
         delta_desired_rot == sigma_desired.rot
         delta_desired_trans == sigma_desired.trans
         N == IterationCount(delta_rot, delta_trans, delta_desired_rot,
                             delta_desired_trans)
     IN  /\ series' = [NoSeries EXCEPT !.delta_rot = delta_rot,
                         !.delta_trans = delta_trans,
                         !.delta_desired_rot = delta_desired_rot,
                         !.delta_desired_trans = delta_desired_trans,
                         !.N = N,
                         !.regions = <<Radii(Region(particles, delta_rot, delta_trans))>>]
         /\ V' = Region(particles, delta_rot, delta_trans)
  /\ pc' = "series_loop"
  /\ UNCHANGED <<particles, new_weights, weights, mesh, sorted_face, measurement,
                 nor_err, face_range, prune_percentage, pruned_list, M, cover, sigma0,
                 sigma_desired, resample, cancel, se3, exhaustive, scoring>>

\* lines 303-308: shrink the radii, set the temperature, enter the cover
SeriesIteration ==
  /\ pc = "series_loop"
  /\ MoreIterations(series)
  /\ LET shrunk == [series EXCEPT !.delta_rot = Shrink(series.delta_rot),
                                  !.delta_trans = Shrink(series.delta_trans)]
     IN  series' = [shrunk EXCEPT !.tau = Temperature(shrunk),
                                  !.covers = series.covers + 1,
                                  !.calls = Append(series.calls, "EvenDensityCover")]
  /\ CoverEnter("series_weights")
  /\ UNCHANGED <<new_weights, weights, mesh, sorted_face, measurement, nor_err,
                 face_range, prune_percentage, pruned_list, V, M, sigma0,
                 sigma_desired, resample, cancel, se3, exhaustive, scoring>>

\* line 312
SeriesWeights ==
  /\ pc = "series_weights"
  /\ Weighting(particles) # "ValueError"
  /\ \E w \in NewWeights(particles) :
        /\ new_weights' = w
        /\ weights' = NormalizedWeights(w)
  /\ series' = [series EXCEPT !.taus = Append(series.taus, series.tau),
                  !.calls = Append(series.calls, "ComputeNormalizedWeights"),
                  !.zero_sum = series.zero_sum \/
                               (new_weights' # <<>> /\ AllZero(new_weights'))]
  /\ pc' = "series_prune"
  /\ UNCHANGED <<particles, mesh, sorted_face, measurement, nor_err, face_range,
                 prune_percentage, pruned_list, V, M, cover, sigma0, sigma_desired,
                 resample, cancel, se3, exhaustive, scoring>>

\* lines 314-317
SeriesPrune ==
  /\ pc = "series_prune"
  /\ LET pruned_particles == Pruning_old(particles, weights.num, prune_percentage)
     IN  /\ pruned_list' = pruned_particles
         /\ V' = NextRegion(pruned_particles, series)
         /\ series' = [series EXCEPT !.n = series.n + 1,
                         !.calls = Append(series.calls, "Pruning_old"),
                         !.regions = Append(series.regions,
                                            Radii(NextRegion(pruned_particles, series)))]
  /\ pc' = "series_loop"
  /\ UNCHANGED <<particles, new_weights, weights, mesh, sorted_face, measurement,
                 nor_err, face_range, prune_percentage, M, cover, sigma0,
                 sigma_desired, resample, cancel, se3, exhaustive, scoring>>

\* line 320
SeriesFinalCover ==
  /\ pc = "series_loop"
  /\ ~ MoreIterations(series)
  /\ series' = [series EXCEPT !.covers = series.covers + 1,
                  !.calls = Append(series.calls, "EvenDensityCover")]
  /\ CoverEnter("series_final_weights")
  /\ UNCHANGED <<new_weights, weights, mesh, sorted_face, measurement, nor_err,
                 face_range, prune_percentage, pruned_list, V, M, sigma0,
                 sigma_desired, resample, cancel, se3, exhaustive, scoring>>

\* lines 321-322: the weights at tau = 1, whose log2 is 0
SeriesReturn ==
  /\ pc = "series_final_weights"
  /\ Weighting(particles) # "ValueError"
  /\ \E w \in NewWeights(particles) :
        /\ new_weights' = w
        /\ weights' = NormalizedWeights(w)
        /\ series' = [series EXCEPT !.tau = 0,
                        !.taus = Append(series.taus, 0),
                        !.calls = Append(series.calls, "ComputeNormalizedWeights"),
                        !.returned = <<particles, NormalizedWeights(w)>>]
  /\ pc' = "done"
  /\ UNCHANGED <<particles, mesh, sorted_face, measurement, nor_err, face_range,
                 prune_percentage, pruned_list, V, M, cover, sigma0, sigma_desired,
                 resample, cancel, se3, exhaustive, scoring>>

\* The particles of ps in whose body frame the normal of the measurement is
\* parallel to the normal of the first face examined.  Line 156 takes
\* np.arccos of inner(nor, nor_measurement)/norm(nor)/norm(nor_measurement)
\* with no clamp to [-1, 1]: for parallel unit vectors the quotient of doubles
\* is 1 or an ulp to either side of it (1.0000000000000002 for the normal
\* (1, 1, 1)/sqrt(3)), and np.arccos of a value above 1 is nan.  min(dist)
\* returns a nan that stands first in dist.
ParallelNormal(ps) ==
  {i \in DOMAIN ps :
     LET d  == InBodyFrame(ps[i], measurement)
         fr == FaceRange(mesh, sorted_face, d, nor_err)
     IN  /\ fr.face # <<>>
         /\ mesh.face_angle[fr.face[1]] = d.angle}

\* new_weights of lines 107-116 when the quotient of line 156 came out above 1
\* for some of the particles with a parallel normal
RoundedWeights(ps) ==
  {[i \in DOMAIN w |-> IF i \in S THEN NaN ELSE w[i]] :
     w \in NewWeights(ps), S \in (SUBSET ParallelNormal(ps)) \ {{}}}

\* line 312, with a quotient above 1 at line 156
SeriesWeightsRounded ==
  /\ pc = "series_weights"
  /\ Weighting(particles) # "ValueError"
  /\ \E w \in RoundedWeights(particles) :
        /\ new_weights' = w
        /\ weights' = NormalizedWeights(w)
  /\ series' = [series EXCEPT !.taus = Append(series.taus, series.tau),
                  !.calls = Append(series.calls, "ComputeNormalizedWeights")]
  /\ pc' = "series_prune"
  /\ UNCHANGED <<particles, mesh, sorted_face, measurement, nor_err, face_range,
                 prune_percentage, pruned_list, V, M, cover, sigma0, sigma_desired,
                 resample, cancel, se3, exhaustive, scoring>>

\* lines 321-322, with a quotient above 1 at line 156
SeriesReturnRounded ==
  /\ pc = "series_final_weights"
  /\ Weighting(particles) # "ValueError"
  /\ \E w \in RoundedWeights(particles) :
        /\ new_weights' = w
        /\ weights' = NormalizedWeights(w)
        /\ series' = [series EXCEPT !.tau = 0,
                        !.taus = Append(series.taus, 0),
                        !.calls = Append(series.calls, "ComputeNormalizedWeights"),
                        !.returned = <<particles, NormalizedWeights(w)>>]
  /\ pc' = "done"
  /\ UNCHANGED <<particles, mesh, sorted_face, measurement, nor_err, face_range,
                 prune_percentage, pruned_list, V, M, cover, sigma0, sigma_desired,
                 resample, cancel, se3, exhaustive, scoring>>

\* lines 312 and 321 on a mesh without faces: min([]) raises ValueError
SeriesWeightsRaise ==
  /\ pc \in {"series_weights", "series_final_weights"}
  /\ Weighting(particles) = "ValueError"
  /\ pc' = "ValueError"
  /\ UNCHANGED <<particles, new_weights, weights, mesh, sorted_face, measurement,
                 nor_err, face_range, prune_percentage, pruned_list, V, M, cover,
                 sigma0, sigma_desired, series, resample, cancel, se3, exhaustive,
                 scoring>>

\* The caller asks for cancellation while ScalingSeries runs.  ScalingSeries
\* takes no cancellation argument and reads no such request.
RequestCancel ==
  /\ pc \in {"series_loop", "cover_center", "cover_draw", "series_weights",
             "series_prune", "series_final_weights"}
  /\ ~ cancel
  /\ cancel' = TRUE
  /\ UNCHANGED <<pc, particles, new_weights, weights, mesh, sorted_face, measurement,
                 nor_err, face_range, prune_percentage, pruned_list, V, M, cover,
                 sigma0, sigma_desired, series, resample, se3, exhaustive, scoring>>

(***************************************************************************)
(* Systematic resampler: Pruning                                           *)
(***************************************************************************)
\* lines 178-181: c[k] is the sum of the numerators of weights 0..k
RECURSIVE CumulativeFrom(_, _)
CumulativeFrom(acc, ws) ==
  IF ws = <<>> THEN <<>>
  ELSE <<acc + Head(ws)>> \o CumulativeFrom(acc + Head(ws), Tail(ws))

Cumulative(ws) == CumulativeFrom(0, ws)

\* mutant: u[i] = u[0] + 1./num_particles*(i + 1)
UTimes_next(u0, i) == u0 + (i + 1) * (MaxU + 1)

\* u[i] = u[0] + 1./num_particles*i with u[0] = u0/((MaxU+1)*num_particles),
\* times (MaxU+1)*num_particles
UTimes(u0, i) == u0 + i * (MaxU + 1)

\* mutant: the pointer also advances when u[i] = c[k]
PointerBehind_ge(rs, den, n) == UTimes(rs.u0, rs.i) * den >= rs.c[rs.k + 1] * (MaxU + 1) * n

\* u[i] > c[k], for the weights num/den of n particles.  With rs.short the
\* last cumulative weight, a sum of doubles (line 181), is an ulp below 1.0:
\* a u[i] that is 1.0 lies above it.
PointerBehind(rs, den, n) ==
  LET u == UTimes(rs.u0, rs.i) * den
      c == rs.c[rs.k + 1] * (MaxU + 1) * n
  IN  u > c \/ (u = c /\ rs.short /\ rs.k + 1 = n /\ rs.c[n] = den)

\* A particle may carry eps, an offset of its translation in units of the
\* absolute tolerance of np.allclose (1e-8), far below the grid unit.
Eps(p) == IF "eps" \in DOMAIN p THEN p.eps ELSE 0

\* np.allclose(np.dot(a, inv(b)), np.eye(4)): the entries of a*inv(b) are
\* within the tolerance of those of the identity; on the grid, the same pose
\* up to an offset of one tolerance
AllClose(a, b) ==
  /\ a.rot = b.rot
  /\ a.trans = b.trans
  /\ Abs(Eps(a) - Eps(b)) <= 1

\* lines 190-196: new_list_p[i] is kept unless it is close to new_list_p[i-1],
\* the particle emitted before it, kept or not
RECURSIVE CollapseFrom(_, _)
CollapseFrom(prev, ps) ==
  IF ps = <<>> THEN <<>>
  ELSE (IF AllClose(Head(ps), prev) THEN <<>> ELSE <<Head(ps)>>)
          \o CollapseFrom(Head(ps), Tail(ps))

Collapse(ps) == IF ps = <<>> THEN <<>> ELSE <<Head(ps)>> \o CollapseFrom(Head(ps), Tail(ps))

NoResample == [c |-> <<>>, u0 |-> 0, i |-> 0, k |-> 0, new_list_p |-> <<>>,
               new_list_k |-> <<>>, short |-> FALSE]

\* lines 173-184
PruningStart ==
  /\ pc = "Pruning"
  /\ IF Len(particles) # Len(weights.num)
       THEN /\ pc' = "AssertionError"
            /\ UNCHANGED resample
       ELSE IF Len(particles) = 0
         THEN /\ pc' = "IndexError"
              /\ UNCHANGED resample
         ELSE /\ \E u0 \in 0..MaxU :
                    resample' = [NoResample EXCEPT !.c = Cumulative(weights.num),
                                                   !.u0 = u0]
              /\ pc' = "resample_loop"
  /\ UNCHANGED <<particles, new_weights, weights, mesh, sorted_face, measurement,
                 nor_err, face_range, prune_percentage, pruned_list, V, M, cover,
                 sigma0, sigma_desired, series, cancel, se3, exhaustive, scoring>>

\* lines 173-184 in double precision.  u0 = MaxU + 1 is the largest u[0]
\* below 1/N, np.random.uniform(0,1) having returned 1 - 2^-53: its u[N-1] =
\* u[0] + 1./N*(N-1) rounds to 1.0.  With three weights or more the additions
\* of line 181 may leave c[N-1] at 0.9999999999999999, as for the weights
\* 0.5, 1/3, 1/6; the sum of two normalized weights rounds to 1.0.
PruningStartRounded ==
  /\ pc = "Pruning"
  /\ IF Len(particles) # Len(weights.num)
       THEN /\ pc' = "AssertionError"
            /\ UNCHANGED resample
       ELSE IF Len(particles) = 0
         THEN /\ pc' = "IndexError"
              /\ UNCHANGED resample
         ELSE /\ \E u0 \in 0..(MaxU + 1), short \in BOOLEAN :
                    /\ short => Len(particles) >= 3
                    /\ resample' = [NoResample EXCEPT !.c = Cumulative(weights.num),
                                                      !.u0 = u0,
                                                      !.short = short]
              /\ pc' = "resample_loop"
  /\ UNCHANGED <<particles, new_weights, weights, mesh, sorted_face, measurement,
                 nor_err, face_range, prune_percentage, pruned_list, V, M, cover,
                 sigma0, sigma_desired, series, cancel, se3, exhaustive, scoring>>

\* line 187-188: the pointer moves on; reading c[k] past the end raises IndexError
PruningAdvance ==
  /\ pc = "resample_loop"
  /\ resample.i < Len(particles)
  /\ IF resample.k >= Len(particles)
       THEN /\ pc' = "IndexError"
            /\ UNCHANGED resample
       ELSE /\ PointerBehind(resample, weights.den, Len(particles))
            /\ resample' = [resample EXCEPT !.k = resample.k + 1]
            /\ pc' = "resample_loop"
  /\ UNCHANGED <<particles, new_weights, weights, mesh, sorted_face, measurement,
                 nor_err, face_range, prune_percentage, pruned_list, V, M, cover,
                 sigma0, sigma_desired, series, cancel, se3, exhaustive, scoring>>

\* line 189
PruningEmit ==
  /\ pc = "resample_loop"
  /\ resample.i < Len(particles)
  /\ resample.k < Len(particles)
  /\ ~ PointerBehind(resample, weights.den, Len(particles))
  /\ resample' = [resample EXCEPT
                    !.new_list_p = Append(resample.new_list_p, particles[resample.k + 1]),
                    !.new_list_k = Append(resample.new_list_k, resample.k),
                    !.i = resample.i + 1]
  /\ pc' = "resample_loop"
  /\ UNCHANGED <<particles, new_weights, weights, mesh, sorted_face, measurement,
                 nor_err, face_range, prune_percentage, pruned_list, V, M, cover,
                 sigma0, sigma_desired, series, cancel, se3, exhaustive, scoring>>

\* lines 190-197
PruningCollapse ==
  /\ pc = "resample_loop"
  /\ resample.i >= Len(particles)
  /\ pruned_list' = Collapse(resample.new_list_p)
  /\ pc' = "done"
  /\ UNCHANGED <<particles, new_weights, weights, mesh, sorted_face, measurement,
                 nor_err, face_range, prune_percentage, V, M, cover, sigma0,
                 sigma_desired, series, resample, cancel, se3, exhaustive, scoring>>

\* Pruning_old as a call of its own
PruningOld ==
  /\ pc = "Pruning_old"
  /\ IF Len(particles) # Len(new_weights)
       THEN /\ pc' = "AssertionError"
            /\ UNCHANGED pruned_list
       ELSE /\ pruned_list' = Pruning_old(particles, new_weights, prune_percentage)
            /\ pc' = "done"
  /\ UNCHANGED <<particles, new_weights, weights, mesh, sorted_face, measurement,
                 nor_err, face_range, prune_percentage, V, M, cover, sigma0,
                 sigma_desired, series, resample, cancel, se3, exhaustive, scoring>>

(***************************************************************************)
(* Inputs and specifications                                               *)
(***************************************************************************)
\* particles: rotation matrices of no turn and of a half turn
ParticleSet == [rot : {0, PiU}, trans : 0..MaxTrans]

\* particles that differ by their translation only
TransParticles == [rot : {0}, trans : 0..MaxTrans]

\* prune_percentage in tenths; 6 is the default of line 284
PruneRatios == {0, 5, 6, 10}

\* distances of a measurement's point to a face, in units of pos_err
PosDists == {0, 2}

\* centers of a region: one that turns by nothing, one that turns by a half turn
CenterSet == {[rot |-> 0, trans |-> 0], [rot |-> PiU, trans |-> 1], [rot |-> 0, trans |-> 1]}

\* radii between 2^(-1/12) and 2^(MaxLogDelta/12) grid units
LogDeltas == (-1)..MaxLogDelta

\* a mesh of one face whose normal is ref_vec, and its index
OneFace == [face_angle |-> <<0>>]
OneFaceIndex == [face_idx |-> <<1>>, sorted_angle |-> <<0>>]

\* a call of ComputeNormalizedWeights
InitWeights ==
  /\ pc = "ComputeNormalizedWeights"
  /\ particles \in SeqsUpTo(ParticleSet, MaxParticles)
  /\ new_weights = <<>>
  /\ weights = normalize(<<>>)
  /\ mesh = OneFace
  /\ sorted_face = OneFaceIndex
  /\ measurement = [angle |-> 0, pos_dist |-> <<0>>, nor_len |-> 1]
  /\ nor_err = 1
  /\ face_range = NoRange
  /\ prune_percentage = 6
  /\ pruned_list = <<>>
  /\ V = Region(<<>>, 0, 0)
  /\ M = 0
  /\ cover = NoCover
  /\ sigma0 = [rot |-> 0, trans |-> 0, kind |-> "pd"]
  /\ sigma_desired = [rot |-> 0, trans |-> 0, kind |-> "pd"]
  /\ series = NoSeries
  /\ resample = NoResample
  /\ cancel = FALSE
  /\ exhaustive = NoExhaustive
  /\ scoring = NoScoring
  /\ se3 = NoSE3

SpecWeights == InitWeights /\ [][ComputeNormalizedWeights]_vars

\* a call of FindminimumDistanceMesh on a mesh and the index built from it
InitFace ==
  /\ pc = "FindminimumDistanceMesh"
  /\ \E n \in 0..MaxFaces :
       \E angles \in [1..n -> 0..MaxAngle], idx \in Permutations1(n) :
          /\ IsSorted(angles)
          /\ sorted_face = [face_idx |-> idx, sorted_angle |-> angles]
          /\ mesh = [face_angle |->
                       [f \in 1..n |-> angles[CHOOSE k \in 1..n : idx[k] = f]]]
          /\ \E a \in 0..MaxAngle, pd \in [1..n -> PosDists] :
                measurement = [angle |-> a, pos_dist |-> pd, nor_len |-> 1]
  /\ nor_err \in 0..MaxNorErr
  /\ face_range = NoRange
  /\ particles = <<>>
  /\ new_weights = <<>>
  /\ weights = normalize(<<>>)
  /\ prune_percentage = 6
  /\ pruned_list = <<>>
  /\ V = Region(<<>>, 0, 0)
  /\ M = 0
  /\ cover = NoCover
  /\ sigma0 = [rot |-> 0, trans |-> 0, kind |-> "pd"]
  /\ sigma_desired = [rot |-> 0, trans |-> 0, kind |-> "pd"]
  /\ series = NoSeries
  /\ resample = NoResample
  /\ cancel = FALSE
  /\ exhaustive = NoExhaustive
  /\ scoring = NoScoring
  /\ se3 = NoSE3

SpecFace == InitFace /\ [][FindminimumDistanceMesh]_vars

\* the exhaustive search and then the indexed search, on one mesh, its index
\* and one measurement
InitBothSearches ==
  /\ pc = "FindminimumDistanceMeshOriginal"
  /\ \E n \in 0..MaxFaces :
       \E angles \in [1..n -> 0..MaxAngle], idx \in Permutations1(n) :
          /\ IsSorted(angles)
          /\ sorted_face = [face_idx |-> idx, sorted_angle |-> angles]
          /\ mesh = [face_angle |->
                       [f \in 1..n |-> angles[CHOOSE k \in 1..n : idx[k] = f]]]
          /\ \E a \in 0..MaxAngle, pd \in [1..n -> PosDists] :
                measurement = [angle |-> a, pos_dist |-> pd, nor_len |-> 1]
  /\ nor_err \in 0..MaxNorErr
  /\ face_range = NoRange
  /\ particles = <<>>
  /\ new_weights = <<>>
  /\ weights = normalize(<<>>)
  /\ prune_percentage = 6
  /\ pruned_list = <<>>
  /\ V = Region(<<>>, 0, 0)
  /\ M = 0
  /\ cover = NoCover
  /\ sigma0 = [rot |-> 0, trans |-> 0, kind |-> "pd"]
  /\ sigma_desired = [rot |-> 0, trans |-> 0, kind |-> "pd"]
  /\ series = NoSeries
  /\ resample = NoResample
  /\ cancel = FALSE
  /\ exhaustive = NoExhaustive
  /\ scoring = NoScoring
  /\ se3 = NoSE3

NextBothSearches == FindminimumDistanceMeshOriginal \/ FindminimumDistanceMesh

SpecBothSearches == InitBothSearches /\ [][NextBothSearches]_vars

\* Angles in twentieths of a radian: three faces at 0.1, 0.5 and 1.2 rad to
\* ref_vec, in any order in the mesh, queried at every angle of the grid.
ThreeFaceAngles == <<2, 10, 24>>

InitFaceQuery ==
  /\ pc = "FindminimumDistanceMesh"
  /\ \E idx \in Permutations1(3) :
       /\ sorted_face = [face_idx |-> idx, sorted_angle |-> ThreeFaceAngles]
       /\ mesh = [face_angle |->
                    [f \in 1..3 |-> ThreeFaceAngles[CHOOSE k \in 1..3 : idx[k] = f]]]
       /\ \E a \in 0..MaxQuery, pd \in [1..3 -> PosDists] :
             measurement = [angle |-> a, pos_dist |-> pd, nor_len |-> 1]
  /\ nor_err \in 0..MaxNorErr
  /\ face_range = NoRange
  /\ particles = <<>>
  /\ new_weights = <<>>
  /\ weights = normalize(<<>>)
  /\ prune_percentage = 6
  /\ pruned_list = <<>>
  /\ V = Region(<<>>, 0, 0)
  /\ M = 0
  /\ cover = NoCover
  /\ sigma0 = [rot |-> 0, trans |-> 0, kind |-> "pd"]
  /\ sigma_desired = [rot |-> 0, trans |-> 0, kind |-> "pd"]
  /\ series = NoSeries
  /\ resample = NoResample
  /\ cancel = FALSE
  /\ exhaustive = NoExhaustive
  /\ scoring = NoScoring
  /\ se3 = NoSE3

SpecFaceQuery == InitFaceQuery /\ [][FindminimumDistanceMesh]_vars

\* a call of ComputeNormalizedWeights on a mesh, its index and one measurement
InitWeightsOfDistances ==
  /\ pc = "compute_weights"
  /\ particles \in SeqsUpTo(ParticleSet, 1)
  /\ \E n \in 0..2 :
       \E angles \in [1..n -> 0..MaxAngle], idx \in Permutations1(n) :
          /\ IsSorted(angles)
          /\ sorted_face = [face_idx |-> idx, sorted_angle |-> angles]
          /\ mesh = [face_angle |->
                       [f \in 1..n |-> angles[CHOOSE k \in 1..n : idx[k] = f]]]
          /\ \E a \in 0..MaxAngle, pd \in [1..n -> PosDists] :
                measurement = [angle |-> a, pos_dist |-> pd, nor_len |-> 1]
  /\ nor_err \in 0..MaxNorErr
  /\ face_range = NoRange
  /\ new_weights = <<>>
  /\ weights = normalize(<<>>)
  /\ prune_percentage = 6
  /\ pruned_list = <<>>
  /\ V = Region(<<>>, 0, 0)
  /\ M = 0
  /\ cover = NoCover
  /\ sigma0 = [rot |-> 0, trans |-> 0, kind |-> "pd"]
  /\ sigma_desired = [rot |-> 0, trans |-> 0, kind |-> "pd"]
  /\ series = NoSeries
  /\ resample = NoResample
  /\ cancel = FALSE
  /\ exhaustive = NoExhaustive
  /\ scoring = NoScoring
  /\ se3 = NoSE3

SpecWeightsOfDistances ==
  InitWeightsOfDistances /\ [][ComputeNormalizedWeightsOfDistances]_vars

\* a call of Pruning_old
InitPruneOld ==
  /\ pc = "Pruning_old"
  /\ particles \in SeqsUpTo(TransParticles, MaxParticles)
  /\ new_weights \in SeqsUpTo(0..MaxWeight, MaxParticles)
  /\ prune_percentage \in PruneRatios
  /\ weights = normalize(<<>>)
  /\ mesh = OneFace
  /\ sorted_face = OneFaceIndex
  /\ measurement = [angle |-> 0, pos_dist |-> <<0>>, nor_len |-> 1]
  /\ nor_err = 1
  /\ face_range = NoRange
  /\ pruned_list = <<>>
  /\ V = Region(<<>>, 0, 0)
  /\ M = 0
  /\ cover = NoCover
  /\ sigma0 = [rot |-> 0, trans |-> 0, kind |-> "pd"]
  /\ sigma_desired = [rot |-> 0, trans |-> 0, kind |-> "pd"]
  /\ series = NoSeries
  /\ resample = NoResample
  /\ cancel = FALSE
  /\ exhaustive = NoExhaustive
  /\ scoring = NoScoring
  /\ se3 = NoSE3

SpecPruneOld == InitPruneOld /\ [][PruningOld]_vars

\* a call of EvenDensityCover, after its lines 50-53
InitCover ==
  /\ pc = "cover_center"
  /\ \E ps \in SeqsUpTo(CenterSet, MaxCenters), dr \in {-1, 0}, dt \in LogDeltas :
        V = Region(ps, dr, dt)
  /\ M \in 0..MaxM
  /\ cover = NoCover
  /\ particles = <<>>
  /\ new_weights = <<>>
  /\ weights = normalize(<<>>)
  /\ mesh = OneFace
  /\ sorted_face = OneFaceIndex
  /\ measurement = [angle |-> 0, pos_dist |-> <<0>>, nor_len |-> 1]
  /\ nor_err = 1
  /\ face_range = NoRange
  /\ prune_percentage = 6
  /\ pruned_list = <<>>
  /\ sigma0 = [rot |-> 0, trans |-> 0, kind |-> "pd"]
  /\ sigma_desired = [rot |-> 0, trans |-> 0, kind |-> "pd"]
  /\ series = NoSeries
  /\ resample = NoResample
  /\ cancel = FALSE
  /\ exhaustive = NoExhaustive
  /\ scoring = NoScoring
  /\ se3 = NoSE3

NextCover == CoverCenter \/ CoverDraw \/ CoverReturn

SpecCover == InitCover /\ [][NextCover]_vars

\* a call of EvenDensityCover on a region of radii of at most one grid unit,
\* after its lines 50-53
InitCoverQuota ==
  /\ pc = "cover_center"
  /\ \E ps \in SeqsUpTo(CenterSet, MaxCenters), dt \in {-1, 0} : V = Region(ps, -1, dt)
  /\ M \in 0..MaxSeriesM
  /\ cover = NoCover
  /\ particles = <<>>
  /\ new_weights = <<>>
  /\ weights = normalize(<<>>)
  /\ mesh = OneFace
  /\ sorted_face = OneFaceIndex
  /\ measurement = [angle |-> 0, pos_dist |-> <<0>>, nor_len |-> 1]
  /\ nor_err = 1
  /\ face_range = NoRange
  /\ prune_percentage = 6
  /\ pruned_list = <<>>
  /\ sigma0 = [rot |-> 0, trans |-> 0, kind |-> "pd"]
  /\ sigma_desired = [rot |-> 0, trans |-> 0, kind |-> "pd"]
  /\ series = NoSeries
  /\ resample = NoResample
  /\ cancel = FALSE
  /\ exhaustive = NoExhaustive
  /\ scoring = NoScoring
  /\ se3 = NoSE3

SpecCoverQuota == InitCoverQuota /\ [][NextCover]_vars

\* the cover runs on: each of its steps is taken when it can be
FairSpecCoverQuota == SpecCoverQuota /\ WF_vars(NextCover)

\* initial particle sets: one particle, two apart, two at one pose
SeriesParticles0 ==
  {<<[rot |-> 0, trans |-> 0]>>,
   <<[rot |-> 0, trans |-> 0], [rot |-> 0, trans |-> 1]>>,
   <<[rot |-> 0, trans |-> 0], [rot |-> 0, trans |-> 0]>>}

\* a call of ScalingSeries
InitSeries ==
  /\ pc = "ScalingSeries"
  /\ particles \in SeriesParticles0
  /\ M \in 0..MaxSeriesM
  /\ sigma0 \in [rot : {-1}, trans : {0}, kind : {"pd"}]
  /\ \E rr \in {0, 5, MaxLogRatio}, rt \in 0..MaxLogRatio :
        sigma_desired = [rot |-> sigma0.rot - rr, trans |-> sigma0.trans - rt,
                         kind |-> "pd"]
  /\ prune_percentage \in {6, 10}
  /\ new_weights = <<>>
  /\ weights = normalize(<<>>)
  /\ mesh = OneFace
  /\ sorted_face = OneFaceIndex
  /\ measurement = [angle |-> 0, pos_dist |-> <<0>>, nor_len |-> 1]
  /\ nor_err = 1
  /\ face_range = NoRange
  /\ pruned_list = <<>>
  /\ V = Region(<<>>, 0, 0)
  /\ cover = NoCover
  /\ series = NoSeries
  /\ resample = NoResample
  /\ cancel = FALSE
  /\ exhaustive = NoExhaustive
  /\ scoring = NoScoring
  /\ se3 = NoSE3

NextSeries ==
  \/ ScalingSeriesStart
  \/ SeriesIteration
  \/ CoverCenter
  \/ CoverDraw
  \/ CoverReturn
  \/ SeriesWeights
  \/ SeriesPrune
  \/ SeriesFinalCover
  \/ SeriesReturn

SpecSeries == InitSeries /\ [][NextSeries]_vars

\* the driver runs on: each of its steps is taken when it can be
FairSpecSeries == SpecSeries /\ WF_vars(NextSeries)

\* a call of ComputeNormalizedWeights, particle by particle, on a mesh of one
\* or two faces, its index and one measurement
InitScoring ==
  /\ pc = "score_particle"
  /\ particles \in SeqsUpTo(ParticleSet, 2)
  /\ \E n \in 1..2 :
       \E angles \in [1..n -> 0..MaxAngle], idx \in Permutations1(n) :
          /\ IsSorted(angles)
          /\ sorted_face = [face_idx |-> idx, sorted_angle |-> angles]
          /\ mesh = [face_angle |->
                       [f \in 1..n |-> angles[CHOOSE k \in 1..n : idx[k] = f]]]
          /\ \E a \in 0..MaxAngle, pd \in [1..n -> PosDists] :
                measurement = [angle |-> a, pos_dist |-> pd, nor_len |-> 1]
  /\ nor_err = 1
  /\ face_range = NoRange
  /\ new_weights = <<>>
  /\ weights = normalize(<<>>)
  /\ prune_percentage = 6
  /\ pruned_list = <<>>
  /\ V = Region(<<>>, 0, 0)
  /\ M = 0
  /\ cover = NoCover
  /\ sigma0 = [rot |-> 0, trans |-> 0, kind |-> "pd"]
  /\ sigma_desired = [rot |-> 0, trans |-> 0, kind |-> "pd"]
  /\ series = NoSeries
  /\ resample = NoResample
  /\ cancel = FALSE
  /\ exhaustive = NoExhaustive
  /\ scoring = NoScoring
  /\ se3 = NoSE3

\* a call of ScalingSeries, with its covers, weights and prunings, or a call of
\* ComputeNormalizedWeights
InitReadOnly == InitSeries \/ InitScoring

NextReadOnly == NextSeries \/ ScoreParticle \/ ScoreReturn

SpecReadOnly == InitReadOnly /\ [][NextReadOnly]_vars

\* the driver in double precision: the arccos of line 156 may be that of a
\* quotient above 1
NextSeriesRounded == NextSeries \/ SeriesWeightsRounded \/ SeriesReturnRounded

SpecSeriesRounded == InitSeries /\ [][NextSeriesRounded]_vars

\* matrices of every kind, meshes of no face or one, normals of length 0 or 1
SigmaKinds == {"pd", "blocks_pd", "not_pd", "not_square"}

\* a call of ScalingSeries on inputs that may be malformed
InitSeriesMalformed ==
  /\ pc = "ScalingSeries"
  /\ particles \in SeriesParticles0
  /\ M \in 0..MaxSeriesM
  /\ \E k0 \in SigmaKinds, kd \in SigmaKinds, rt \in {0, 4, 8} :
        /\ sigma0 = [rot |-> 0, trans |-> 0, kind |-> k0]
        /\ sigma_desired = [rot |-> 0, trans |-> -rt, kind |-> kd]
  /\ prune_percentage = 6
  /\ new_weights = <<>>
  /\ weights = normalize(<<>>)
  /\ \E n \in {0, 1} :
        /\ mesh = [face_angle |-> [j \in 1..n |-> 0]]
        /\ sorted_face = [face_idx |-> [j \in 1..n |-> j],
                          sorted_angle |-> [j \in 1..n |-> 0]]
        /\ \E nl \in {0, 1} :
              measurement = [angle |-> 0, pos_dist |-> [j \in 1..n |-> 0],
                             nor_len |-> nl]
  /\ nor_err = 1
  /\ face_range = NoRange
  /\ pruned_list = <<>>
  /\ V = Region(<<>>, 0, 0)
  /\ cover = NoCover
  /\ series = NoSeries
  /\ resample = NoResample
  /\ cancel = FALSE
  /\ exhaustive = NoExhaustive
  /\ scoring = NoScoring
  /\ se3 = NoSE3

NextSeriesMalformed == NextSeries \/ ScalingSeriesRaise \/ SeriesWeightsRaise

SpecSeriesMalformed == InitSeriesMalformed /\ [][NextSeriesMalformed]_vars

\* the driver with a caller that may ask for cancellation at any time
NextSeriesCancel == NextSeries \/ RequestCancel

SpecSeriesCancel == InitSeries /\ [][NextSeriesCancel]_vars

\* the determinant of a 3x3 matrix
Det3(A) ==
    A[1][1] * (A[2][2] * A[3][3] - A[2][3] * A[3][2])
  - A[1][2] * (A[2][1] * A[3][3] - A[2][3] * A[3][1])
  + A[1][3] * (A[2][1] * A[3][2] - A[2][2] * A[3][1])

\* the rotation matrices of integer entries: the 24 rotations of the cube,
\* each a permutation matrix with signs, of determinant 1
CubeRotations ==
  {R \in {[i \in 1..3 |-> [j \in 1..3 |-> IF j = f[i] THEN sg[i] ELSE 0]] :
            f \in Permutations1(3), sg \in [1..3 -> {-1, 1}]} :
     Det3(R) = 1}

\* translations on the grid
GridVectors == [1..3 -> (0 - MaxCoord)..MaxCoord]

\* a rigid transform T = (R, t), and TransformInv called on it
InitTransformInv ==
  /\ pc = "TransformInv"
  /\ \E R \in CubeRotations, t \in GridVectors :
        se3 = [T |-> SetBlocks(R, t), out |-> <<>>]
  /\ particles = <<>>
  /\ new_weights = <<>>
  /\ weights = normalize(<<>>)
  /\ mesh = OneFace
  /\ sorted_face = OneFaceIndex
  /\ measurement = [angle |-> 0, pos_dist |-> <<0>>, nor_len |-> 1]
  /\ nor_err = 1
  /\ face_range = NoRange
  /\ prune_percentage = 6
  /\ pruned_list = <<>>
  /\ V = Region(<<>>, 0, 0)
  /\ M = 0
  /\ cover = NoCover
  /\ sigma0 = [rot |-> 0, trans |-> 0, kind |-> "pd"]
  /\ sigma_desired = [rot |-> 0, trans |-> 0, kind |-> "pd"]
  /\ series = NoSeries
  /\ resample = NoResample
  /\ cancel = FALSE
  /\ exhaustive = NoExhaustive
  /\ scoring = NoScoring

SpecTransformInv == InitTransformInv /\ [][TransformInvCall]_vars

\* the step of the rotation angles tried, in microradians
StepMicro == 3 * 10

\* rotation vectors along a coordinate axis, of norm below pi: within
\* MaxSteps steps of 0 and of pi
RotationVectors ==
  {[i \in 1..3 |-> IF i = k THEN sg * theta ELSE 0] :
     k \in 1..3, sg \in {-1, 1},
     theta \in {StepMicro * t : t \in 0..MaxSteps}
               \cup {PiMicro - StepMicro * t : t \in 1..MaxSteps}}

\* 2 a a^T - I in fixed point, for the unit axis a = v/|v|: the rotation by
\* pi about a
HalfTurn(v) ==
  LET n == Inner(v, v)
  IN  [m |-> [i \in 1..3 |-> [j \in 1..3 |->
                Quot(2 * v[i] * v[j] * FixOne, n) - FixOne * Identity(3)[i][j]]],
       angle |-> PiMicro]

\* the axes tried: every non-zero vector of the grid
Axes == {v \in [1..3 -> (0 - MaxAxis)..MaxAxis] : Inner(v, v) > 0}

\* VecToRot then RotToVec of a rotation vector, or RotToVec of a half turn
InitRotToVec ==
  /\ \/ /\ pc = "VecToRot"
        /\ \E phi \in RotationVectors : se3 = [T |-> phi, v |-> <<>>, out |-> <<>>]
     \/ /\ pc = "RotToVec"
        /\ \E v \in Axes : se3 = [T |-> HalfTurn(v), v |-> v, out |-> <<>>]
  /\ particles = <<>>
  /\ new_weights = <<>>
  /\ weights = normalize(<<>>)
  /\ mesh = OneFace
  /\ sorted_face = OneFaceIndex
  /\ measurement = [angle |-> 0, pos_dist |-> <<0>>, nor_len |-> 1]
  /\ nor_err = 1
  /\ face_range = NoRange
  /\ prune_percentage = 6
  /\ pruned_list = <<>>
  /\ V = Region(<<>>, 0, 0)
  /\ M = 0
  /\ cover = NoCover
  /\ sigma0 = [rot |-> 0, trans |-> 0, kind |-> "pd"]
  /\ sigma_desired = [rot |-> 0, trans |-> 0, kind |-> "pd"]
  /\ series = NoSeries
  /\ resample = NoResample
  /\ cancel = FALSE
  /\ exhaustive = NoExhaustive
  /\ scoring = NoScoring

NextRotToVec == VecToRotCall \/ RotToVecCall

SpecRotToVec == InitRotToVec /\ [][NextRotToVec]_vars

\* a call of Pruning with normalized weights
InitPruning ==
  /\ pc = "Pruning"
  /\ particles \in SeqsUpTo(TransParticles, MaxParticles)
  /\ \E w \in [1..Len(particles) -> 0..MaxWeight] :
        /\ new_weights = w
        /\ weights = normalize(w)
  /\ mesh = OneFace
  /\ sorted_face = OneFaceIndex
  /\ measurement = [angle |-> 0, pos_dist |-> <<0>>, nor_len |-> 1]
  /\ nor_err = 1
  /\ face_range = NoRange
  /\ prune_percentage = 6
  /\ pruned_list = <<>>
  /\ V = Region(<<>>, 0, 0)
  /\ M = 0
  /\ cover = NoCover
  /\ sigma0 = [rot |-> 0, trans |-> 0, kind |-> "pd"]
  /\ sigma_desired = [rot |-> 0, trans |-> 0, kind |-> "pd"]
  /\ series = NoSeries
  /\ resample = NoResample
  /\ cancel = FALSE
  /\ exhaustive = NoExhaustive
  /\ scoring = NoScoring
  /\ se3 = NoSE3

NextPruning == PruningStart \/ PruningAdvance \/ PruningEmit \/ PruningCollapse

SpecPruning == InitPruning /\ [][NextPruning]_vars

\* the resampler in double precision
NextPruningRounded ==
  PruningStartRounded \/ PruningAdvance \/ PruningEmit \/ PruningCollapse

SpecPruningRounded == InitPruning /\ [][NextPruningRounded]_vars

\* particles at one grid pose, up to MaxClose tolerances apart
ClosePoses == [rot : {0}, trans : {0}, eps : 0..MaxClose]

\* a call of Pruning on particles that lie within a few tolerances of each
\* other, with weights that are zero or equal
InitPruningClose ==
  /\ pc = "Pruning"
  /\ particles \in SeqsUpTo(ClosePoses, MaxEmitted)
  /\ \E w \in [1..Len(particles) -> {0, 1}] :
        /\ new_weights = w
        /\ weights = normalize(w)
  /\ mesh = OneFace
  /\ sorted_face = OneFaceIndex
  /\ measurement = [angle |-> 0, pos_dist |-> <<0>>, nor_len |-> 1]
  /\ nor_err = 1
  /\ face_range = NoRange
  /\ prune_percentage = 6
  /\ pruned_list = <<>>
  /\ V = Region(<<>>, 0, 0)
  /\ M = 0
  /\ cover = NoCover
  /\ sigma0 = [rot |-> 0, trans |-> 0, kind |-> "pd"]
  /\ sigma_desired = [rot |-> 0, trans |-> 0, kind |-> "pd"]
  /\ series = NoSeries
  /\ resample = NoResample
  /\ cancel = FALSE
  /\ exhaustive = NoExhaustive
  /\ scoring = NoScoring
  /\ se3 = NoSE3

SpecPruningClose == InitPruningClose /\ [][NextPruning]_vars

InBand(k) == Abs(sorted_face.sorted_angle[k + 1] - measurement.angle) <= nor_err

\* C2: the face range [low_bound, up_bound) holds every position whose angle
\* is within nor_err of the query angle.
C2_RangeCoversBand ==
  pc = "done" =>
     \A k \in 0..(Len(sorted_face.sorted_angle) - 1) :
        InBand(k) => (face_range.low_bound <= k /\ k < face_range.up_bound)

\* a query on three faces whose band holds a position and whose range leaves
\* out the first face
C2_Witness ==
  /\ pc = "done"
  /\ Len(sorted_face.sorted_angle) = 3
  /\ \E k \in 0..2 : InBand(k)
  /\ face_range.low_bound >= 1

\* C3: on an index of at least one face the lower bound is clamped at zero:
\* 0 <= low_bound <= up_bound <= |F|, and only positions low_bound..up_bound-1,
\* none of them negative, are read.
C3_ClampedRange ==
  (pc = "done" /\ Len(sorted_face.sorted_angle) >= 1) =>
     /\ 0 <= face_range.low_bound
     /\ face_range.low_bound <= face_range.up_bound
     /\ face_range.up_bound <= Len(sorted_face.sorted_angle)
     /\ \A j \in DOMAIN face_range.read :
           /\ face_range.read[j] >= 0
           /\ face_range.low_bound <= face_range.read[j]
           /\ face_range.read[j] < face_range.up_bound

\* the candidate vec lies in the ball of center k (0-based) of the region
CandidateInBall(vec, k) ==
  /\ IsInside(vec.rot, RotToVec(V.particles[k + 1].rot), V.delta_rot)
  /\ IsInside(vec.trans, V.particles[k + 1].trans, V.delta_trans)

\* C4: a candidate drawn for center c is rejected exactly when the candidate
\* lies in the ball of a center of index less than c.
C4_RejectIffInEarlierBall ==
  \A d \in Range(cover.new_vec) :
     d.accepted <=> ~ \E k \in 0..(d.i - 1) : CandidateInBall(d, k)

\* the k-th smallest element of the set S of numbers
Nth(S, k) == CHOOSE x \in S : Cardinality({y \in S : y < x}) = k - 1

MaxOf(ws) == CHOOSE m \in Range(ws) : \A x \in Range(ws) : x <= m

\* the indices i with w_i > rho * max_j w_j
AboveThreshold(ws, rho) ==
  {i \in DOMAIN ws : ws[i] * 10 > rho * MaxOf(ws)}

\* C5: Pruning_old returns exactly the particles with w_i > rho * max_j w_j,
\* in their original order.
C5_ThresholdPruner ==
  pc = "done" =>
     LET keep == AboveThreshold(new_weights, prune_percentage)
     IN  pruned_list = [j \in 1..Cardinality(keep) |-> particles[Nth(keep, j)]]

\* of three particles, the pruner kept some and dropped some
C5_Witness ==
  /\ pc = "done"
  /\ Len(particles) = 3
  /\ Len(pruned_list) \in {1, 2}
  /\ prune_percentage = 6

\* C6: the radii stored in successive regions V_0, V_1, ... strictly
\* decrease, each by exactly the zoom factor.
C6_RadiiShrinkByZoom ==
  \A j \in 1..(Len(series.regions) - 1) :
     /\ series.regions[j + 1].delta_rot = series.regions[j].delta_rot + zoom
     /\ series.regions[j + 1].delta_trans = series.regions[j].delta_trans + zoom
     /\ series.regions[j + 1].delta_rot < series.regions[j].delta_rot
     /\ series.regions[j + 1].delta_trans < series.regions[j].delta_trans

\* a run of two iterations has returned
C6_Witness ==
  /\ pc = "done"
  /\ Len(series.regions) = 3

\* what ScalingSeries has done when it returns: N iterations (none for
\* N <= 0), one cover more than iterations, the last weights at tau = 1, and
\* the last cover returned with its weights
ReturnedAfterN ==
  LET N == IterationCount(sigma0.rot, sigma0.trans, sigma_desired.rot,
                          sigma_desired.trans)
  IN  /\ series.n = Max2(N, 0)
      /\ series.covers = series.n + 1
      /\ Len(series.taus) = series.n + 1
      /\ series.taus[Len(series.taus)] = 0
      /\ series.returned = <<particles, weights>>

\* C7: ScalingSeries terminates, after exactly N = round(max(N_rot, N_trans))
\* iterations and one more cover, weighted at tau = 1 and returned.
C7_TerminatesAfterN ==
  /\ <>(pc = "done")
  /\ [](pc = "done" => ReturnedAfterN)

\* a run of two iterations has returned its last cover
C7_Witness ==
  /\ pc = "done"
  /\ series.n = 2
  /\ series.covers = 3
  /\ series.returned # <<>>

\* C8: when ScalingSeries returns, the radius of the dimension that set N is
\* within one zoom step of its desired value.
C8_ReachesDesiredRadius ==
  pc = "done" =>
     LET N_rot == Volume(sigma0.rot, 3) - Volume(sigma_desired.rot, 3)
         N_trans == Volume(sigma0.trans, 3) - Volume(sigma_desired.trans, 3)
     IN  /\ N_rot >= N_trans =>
              Abs(series.delta_rot - series.delta_desired_rot) <= -zoom
         /\ N_trans >= N_rot =>
              Abs(series.delta_trans - series.delta_desired_trans) <= -zoom

\* C9: the temperature of iteration n is (delta_trans/delta_desired_trans)^2
\* of the delta_trans already shrunk in that iteration, whatever the rotation
\* radii are.
C9_TemperatureFromTranslation ==
  \A j \in 1..Len(series.taus) :
     j <= series.N =>
        series.taus[j] = 2 * ((sigma0.trans + j * zoom) - sigma_desired.trans)

\* two iterations were weighted, in a run whose rotation and translation
\* ratios differ
C9_Witness ==
  /\ pc = "done"
  /\ series.N = 2
  /\ Len(series.taus) = 3
  /\ sigma0.rot - sigma_desired.rot # sigma0.trans - sigma_desired.trans

\* c[k] >= u[i], for the weights num/den of the particles
Reaches(k, i) ==
  resample.c[k + 1] * (MaxU + 1) * Len(particles) >= UTimes(resample.u0, i) * weights.den

\* every particle emitted so far sits at the smallest index whose cumulative
\* weight reaches its u[i]
EmitsSmallestIndex ==
  \A j \in DOMAIN resample.new_list_k :
     LET k == resample.new_list_k[j]
     IN  /\ k \in 0..(Len(particles) - 1)
         /\ Reaches(k, j - 1)
         /\ \A l \in 0..(k - 1) : ~ Reaches(l, j - 1)
         /\ resample.new_list_p[j] = particles[k + 1]

\* C10: the systematic resampler emits, for each i, the particle of the
\* smallest index k with c_k >= u_i, and never moves the pointer k backwards.
C10_SystematicResampling ==
  /\ [](pc \in {"resample_loop", "done"} => EmitsSmallestIndex)
  /\ [][resample'.k >= resample.k]_vars

\* three particles were emitted and the pointer skipped a particle
C10_Witness ==
  /\ pc = "done"
  /\ Len(resample.new_list_k) = 3
  /\ resample.new_list_k[1] = 0
  /\ resample.new_list_k[2] = 2

\* C11: when every unnormalized weight of an iteration is zero, no error is
\* raised, the weights are reset to uniform, and the returned result carries
\* a diagnostic flag beside the particles and the weights.
C11_ZeroWeightsFlagged ==
  /\ pc \notin {"ValueError", "NameError"}
  /\ (pc = "series_prune" /\ new_weights # <<>> /\ AllZero(new_weights)) =>
        \A i \in DOMAIN weights.num :
           weights.num[i] * Len(particles) = weights.den
  /\ (pc = "done" /\ series.zero_sum) => Len(series.returned) > 2

\* C12: between iterations, once cancellation is requested the driver starts
\* no further iteration: it returns the current particles with their most
\* recently computed weights.
C12_StopsOnCancellation ==
  [][(cancel /\ pc = "series_loop") =>
        (pc' = "done" /\ series'.returned = <<particles, weights>>)]_vars

\* the input is malformed: a covariance that is not square or not positive
\* definite, a mesh without faces, or a measurement normal of length zero
Malformed ==
  \/ sigma0.kind # "pd"
  \/ sigma_desired.kind # "pd"
  \/ Len(mesh.face_angle) = 0
  \/ measurement.nor_len = 0

\* C13: on a malformed input ScalingSeries never returns particles and weights.
C13_FailsFastOnMalformedInput ==
  Malformed => (pc # "done" /\ series.returned = <<>>)

\* C14: for a rigid transform T = (R, t), TransformInv(T) = (R^T, -R^T t), so
\* T . TransformInv(T) = I and TransformInv(TransformInv(T)) = T; T is not
\* modified.
C14_TransformInv ==
  /\ [](Len(se3.out) >= 1 =>
          /\ Rot3(se3.out[1]) = Transpose(Rot3(se3.T))
          /\ Trans3(se3.out[1]) = MatVec(Neg(Transpose(Rot3(se3.T))), Trans3(se3.T))
          /\ se3.out[1][4] = <<0, 0, 0, 1>>
          /\ MatMul(se3.T, se3.out[1]) = Identity(4))
  /\ [](Len(se3.out) >= 2 => se3.out[2] = se3.T)
  /\ [][se3'.T = se3.T]_vars

\* a transform that turns and shifts has been inverted twice
C14_Witness ==
  /\ pc = "done"
  /\ Len(se3.out) = 2
  /\ Rot3(se3.T) # Identity(3)
  /\ Rot3(se3.T) # Transpose(Rot3(se3.T))
  /\ Trans3(se3.T) = <<1, 0, 0 - 1>>

\* C15: for a rotation vector of norm below pi, small ones and ones close to
\* pi included, RotToVec(VecToRot(phi)) is phi (1e-10 is below the
\* microradian of the grid).
C15_LogExpRoundTrip ==
  (pc = "done" /\ Len(se3.out) = 2) =>
     /\ se3.out[2].vec = se3.T
     /\ ~ se3.out[2].undefined

\* pi*|v_i|/|v| and |w_i|, both in milliradians, squared and times |v|^2,
\* differ by no more than two milliradians of w_i make
NearPiAxis(w, v) ==
  LET n == Inner(v, v)
      PiMilli == PiMicro \div 1000
  IN  \A i \in 1..3 :
        LET wi == Abs(w[i]) \div 1000
        IN  Abs(wi * wi * n - PiMilli * PiMilli * v[i] * v[i]) <= 4 * PiMilli * n

\* w points along +v or along -v
AlongAxis(w, v) ==
  \/ \A i \in 1..3 : w[i] * v[i] >= 0 /\ (v[i] = 0 => Abs(w[i]) <= 1000)
  \/ \A i \in 1..3 : w[i] * v[i] <= 0 /\ (v[i] = 0 => Abs(w[i]) <= 1000)

\* C16: for a rotation by pi about a unit axis a, RotToVec takes the pi
\* branch, divides by zero nowhere, and returns a vector of norm pi along +a
\* or -a.
C16_HalfTurnLog ==
  (pc = "done" /\ Len(se3.out) = 1) =>
     /\ se3.out[1].branch = "pi"
     /\ ~ se3.out[1].undefined
     /\ NearPiAxis(se3.out[1].vec, se3.v)
     /\ AlongAxis(se3.out[1].vec, se3.v)

\* the half turn about (1,1,1)/sqrt(3) has been taken the log of
C16_Witness ==
  /\ pc = "done"
  /\ Len(se3.out) = 1
  /\ se3.v = <<1, 1, 1>>
  /\ se3.out[1].branch = "pi"

\* the query of the example: angles 0.1, 0.5, 1.2, query angle 0.45,
\* nor_err 0.1 (twentieths of a radian)
RangeQueryExample ==
  /\ pc = "done"
  /\ sorted_face.sorted_angle = ThreeFaceAngles
  /\ measurement.angle = 9
  /\ nor_err = 2

\* C17 as stated: on the example the range holds position 1 and both of its
\* neighbours, positions 0 and 2.
C17_RangeHoldsBothNeighbours ==
  RangeQueryExample => {0, 1, 2} \subseteq Range(face_range.read)

\* C17: on the example the range is [0, 2): it holds position 1 and
\* position 0, and not position 2.
C17_RangeOfExample ==
  RangeQueryExample =>
     /\ face_range.low_bound = 0
     /\ face_range.up_bound = 2
     /\ face_range.read = <<0, 1>>

\* the example queried, position 1 read
C17_Witness ==
  /\ RangeQueryExample
  /\ 1 \in Range(face_range.read)
  /\ face_range.min[1] = "num"

\* one triangle whose normal is ref_vec, one measurement on it with the same
\* normal, the identity particle, a positive nor_err
OneTriangleExample ==
  /\ mesh = OneFace
  /\ sorted_face = OneFaceIndex
  /\ measurement = [angle |-> 0, pos_dist |-> <<0>>, nor_len |-> 1]
  /\ particles = <<[rot |-> 0, trans |-> 0]>>
  /\ nor_err > 0

\* C18: on the one-triangle example the minimum distance is 0, the weight
\* before normalization is exp(0) = 1 and the single weight returned is 1.
C18_OneTriangleWeight ==
  (pc = "done" /\ OneTriangleExample) =>
     /\ face_range.min = <<"num", 0>>
     /\ new_weights = <<MaxWeight>>
     /\ weights.num = <<MaxWeight>>
     /\ weights.den = MaxWeight

\* the weights of the example returned, the triangle read
C18_Witness ==
  /\ pc = "done"
  /\ OneTriangleExample
  /\ face_range.face # <<>>
  /\ Len(weights.num) = 1

\* the positions of EvenDensityCover
CoverPcs == {"cover_center", "cover_draw"}

\* an iteration begins: the radii are shrunk once and the cover is entered on
\* the region V_(n-1), left as the last iteration (or the start) built it
IterationCoversPreviousRegion ==
  (pc = "series_loop" /\ MoreIterations(series) /\ pc' # pc) =>
     /\ pc' \in CoverPcs
     /\ V' = V
     /\ V.particles = (IF series.n = 0 THEN particles ELSE pruned_list)
     /\ Radii(V) = series.regions[series.n + 1]
     /\ series'.delta_rot = V.delta_rot + zoom
     /\ series'.delta_trans = V.delta_trans + zoom
     /\ series'.n = series.n

\* the cover reads one region from its first center to its last, and the
\* weights come next
CoverThenWeights ==
  (pc \in CoverPcs) =>
     /\ V' = V
     /\ series' = series
     /\ pc' \in CoverPcs \cup {"series_weights", "series_final_weights"}

\* the weights of an iteration: one for each particle of the cover just drawn
WeightsOfThatCover ==
  (pc = "series_weights" /\ pc' # pc) =>
     /\ pc' = "series_prune"
     /\ particles' = particles
     /\ Len(weights'.num) = Len(particles)
     /\ V' = V
     /\ series'.n = series.n

\* the pruner of an iteration: applied to that cover and those weights; the
\* next region holds its survivors and the radii shrunk in this iteration
PruneThatCover ==
  (pc = "series_prune" /\ pc' # pc) =>
     /\ pc' = "series_loop"
     /\ particles' = particles
     /\ weights' = weights
     /\ pruned_list' = Pruning_old(particles, weights.num, prune_percentage)
     /\ V' = Region(pruned_list', series.delta_rot, series.delta_trans)
     /\ Radii(V') = [delta_rot |-> V.delta_rot + zoom,
                     delta_trans |-> V.delta_trans + zoom]
     /\ series'.n = series.n + 1

\* C19: each iteration covers the previous region, weighs exactly that cover,
\* prunes exactly that cover with those weights, and builds the next region
\* from the survivors with the radii shrunk in that iteration, in this order.
C19_CoverWeightsPrune ==
  [][/\ IterationCoversPreviousRegion
     /\ CoverThenWeights
     /\ WeightsOfThatCover
     /\ PruneThatCover]_vars

\* the second iteration has pruned a cover of two particles down to one
C19_Witness ==
  /\ pc = "series_loop"
  /\ series.n = 2
  /\ Len(particles) = 2
  /\ Len(pruned_list) = 1
  /\ V.particles = pruned_list

\* the calls of one iteration, in order
IterationCalls == <<"EvenDensityCover", "ComputeNormalizedWeights", "Pruning_old">>

\* the calls of n iterations
RECURSIVE CallsOfIterations(_)
CallsOfIterations(n) ==
  IF n <= 0 THEN <<>> ELSE CallsOfIterations(n - 1) \o IterationCalls

\* how many times f was called
TimesCalled(f) == Cardinality({j \in DOMAIN series.calls : series.calls[j] = f})

\* the iterations a run makes
Iterations ==
  Max2(IterationCount(sigma0.rot, sigma0.trans, sigma_desired.rot,
                      sigma_desired.trans), 0)

\* C20 as stated: a run that has returned has called the threshold pruner
\* once in each iteration and the systematic resampler once, as its last call.
C20_ResamplesAtTheEnd ==
  pc = "done" =>
     /\ TimesCalled("Pruning_old") = Iterations
     /\ TimesCalled("Pruning") = 1
     /\ series.calls[Len(series.calls)] = "Pruning"

\* C20: the driver calls the threshold pruner once in each iteration, after
\* the cover and the weights, and never the systematic resampler: a run ends
\* with one more cover and its weights.
C20_ThresholdPrunerOnly ==
  /\ resample = NoResample
  /\ TimesCalled("Pruning") = 0
  /\ pc = "series_loop" => series.calls = CallsOfIterations(series.n)
  /\ pc = "done" =>
        /\ TimesCalled("Pruning_old") = Iterations
        /\ series.calls = CallsOfIterations(Iterations) \o
                            <<"EvenDensityCover", "ComputeNormalizedWeights">>

\* a run of two iterations has returned
C20_Witness ==
  /\ pc = "done"
  /\ Iterations = 2
  /\ TimesCalled("Pruning_old") = 2
  /\ Len(series.returned) = 2

\* the slot (center i, slot m) the cover is drawing for
CoverSlot(c) == <<c.i, c.m>>

\* C21: EvenDensityCover returns; it draws at most MaxTries candidates for a
\* slot, leaves the slot after the last of them whether or not it was
\* accepted, and draws at most MaxTries * M * |V| candidates in all.
C21_CoverTerminates ==
  /\ <>(pc = "done")
  /\ [](cover.count <= MaxTries)
  /\ [](cover.draws <= MaxTries * M * Len(V.particles))
  /\ [][(pc = "cover_draw" /\ cover.count = MaxTries - 1) =>
          CoverSlot(cover') # CoverSlot(cover)]_vars

\* a cover has returned after a slot whose five candidates were all rejected
C21_Witness ==
  /\ pc = "done"
  /\ cover.count = MaxTries
  /\ ~ cover.accepted
  /\ cover.draws > MaxTries

\* the particles already accepted when the cover came to center c (0-based)
AcceptedBefore(c) ==
  SubSeq(particles, 1, SumSeq(SubSeq(cover.added, 1, c)))

\* existing_c: how many of them lie in the ball of center c
ExistingAt(c) ==
  Cardinality({j \in DOMAIN AcceptedBefore(c) :
                 /\ IsInside(RotToVec(AcceptedBefore(c)[j].rot),
                             RotToVec(V.particles[c + 1].rot), V.delta_rot)
                 /\ IsInside(AcceptedBefore(c)[j].trans,
                             V.particles[c + 1].trans, V.delta_trans)})

\* C22: for each center c the cover adds at most max(0, M - existing_c)
\* particles, none when the ball of c already holds M or more, and the cover
\* holds at most M * |V| particles.
C22_AtMostShortfall ==
  /\ \A c \in 0..(Len(cover.added) - 1) :
        /\ cover.added[c + 1] <= Max2(0, M - ExistingAt(c))
        /\ ExistingAt(c) >= M => cover.added[c + 1] = 0
  /\ Len(particles) = SumSeq(cover.added)
  /\ Len(particles) <= M * Len(V.particles)

\* a cover has returned; the ball of its second center already held a
\* particle and the center received none, its third center received one
C22_Witness ==
  /\ pc = "done"
  /\ M = 1
  /\ Len(cover.added) = 3
  /\ ExistingAt(1) = 1
  /\ cover.added[2] = 0
  /\ cover.added[3] = 1

\* out is e with some of its elements left out
IsSubsequence(out, e) ==
  \E f \in [1..Len(out) -> 1..Len(e)] :
     /\ \A j \in 1..(Len(out) - 1) : f[j] < f[j + 1]
     /\ \A j \in 1..Len(out) : e[f[j]] = out[j]

\* C23: what Pruning returns is a non-empty subsequence of the emitted
\* sequence, begins with the first emitted particle, holds input particles
\* only, and holds no two adjacent particles that are equal.
C23_CollapsedOutput ==
  (pc = "done" /\ resample.new_list_p # <<>>) =>
     /\ pruned_list # <<>>
     /\ IsSubsequence(pruned_list, resample.new_list_p)
     /\ pruned_list[1] = resample.new_list_p[1]
     /\ Range(pruned_list) \subseteq Range(particles)
     /\ \A j \in 1..(Len(pruned_list) - 1) : pruned_list[j] # pruned_list[j + 1]

\* FindminimumDistanceMesh was called on an index of at least one face
QueriedSomeFace ==
  /\ pc \in {"done", "ValueError"}
  /\ Len(sorted_face.sorted_angle) >= 1

BestFacesInBand ==
  {f \in DOMAIN mesh.face_angle :
     /\ exhaustive.dist[f] = exhaustive.min
     /\ Abs(mesh.face_angle[f] - measurement.angle) <= nor_err}

BothSearchesDone == pc = "done" /\ exhaustive # NoExhaustive

C26_ReadOnly ==
  /\ [][/\ mesh' = mesh
        /\ sorted_face' = sorted_face
        /\ pc \in {"score_particle", "compute_weights", "ComputeNormalizedWeights",
                   "series_weights"}
             => (measurement' = measurement /\ particles' = particles)]_vars
  /\ [](\A i \in DOMAIN scoring.scored :
           scoring.scored[i] = InBodyFrame(particles[i], measurement))

\* two particles that turn and move the measurement have been scored, each
\* against a list that is not the list of the caller
C26_Witness ==
  /\ pc = "done"
  /\ Len(scoring.scored) = 2
  /\ particles[1] = particles[2]
  /\ particles[1] = [rot |-> PiU, trans |-> 1]
  /\ scoring.scored[1] # measurement
  /\ scoring.scored[2] = scoring.scored[1]

\* C27 as stated: with a quota M >= 1 and a prune ratio below 1 (particles0 is
\* never empty), every cover of ScalingSeries is non-empty, the particles
\* left by every pruning are non-empty, and the list returned is non-empty
\* and as long as the weights returned.
C27_NeverEmpty ==
  (M >= 1 /\ prune_percentage < 10) =>
     /\ pc \in {"series_weights", "series_prune", "series_final_weights"}
          => particles # <<>>
     /\ (pc = "series_loop" /\ series.n > 0) => pruned_list # <<>>
     /\ pc = "done" =>
          /\ series.returned[1] # <<>>
          /\ Len(series.returned[1]) = Len(series.returned[2].num)

\* the temperatures used so far never rise from one to the next
TemperaturesNeverRise ==
  \A j \in 1..(Len(series.taus) - 1) : series.taus[j] >= series.taus[j + 1]

\* log2 of the ratios of the initial to the desired radius, in twelfths
RatioTrans == sigma0.trans - sigma_desired.trans
RatioRot == sigma0.rot - sigma_desired.rot

\* C28 as stated: the temperatures of the iterations followed by the final
\* temperature 1 never rise, whichever ratio determines N.
C28_TemperaturesNonIncreasing == TemperaturesNeverRise

\* C28, amended: the temperatures of the iterations fall strictly; the final
\* temperature 1 is not above the last of them exactly when N = 0 or N steps
\* of zoom leave the translation radius at or above the desired one, which is
\* so whenever the translation ratio determines N.
C28_TemperaturesFall ==
  /\ \A j \in 1..(Len(series.taus) - 1) :
        j + 1 <= series.N => series.taus[j] > series.taus[j + 1]
  /\ pc = "done" =>
        /\ TemperaturesNeverRise <=>
              (series.N = 0 \/ series.N * (0 - zoom) <= RatioTrans)
        /\ RatioTrans >= RatioRot => TemperaturesNeverRise

\* the rotation ratio determines N = 2, and the final temperature 1 is above
\* the temperature of the last iteration
C28_Witness ==
  /\ pc = "done"
  /\ series.N = 2
  /\ RatioRot > RatioTrans
  /\ Len(series.taus) = 3
  /\ series.taus[1] > series.taus[2]
  /\ series.taus[3] > series.taus[2]

\* how often particle k was emitted, and N*w_k rounded down and up
EmittedTimes(k) ==
  Cardinality({j \in DOMAIN resample.new_list_k : resample.new_list_k[j] = k})
FloorNw(k) == (Len(particles) * weights.num[k + 1]) \div weights.den
CeilNw(k) == (Len(particles) * weights.num[k + 1] + weights.den - 1) \div weights.den

\* particle k was emitted floor(N*w_k) or ceil(N*w_k) times
FloorOrCeil(k) ==
  /\ EmittedTimes(k) \in {FloorNw(k), CeilNw(k)}
  /\ weights.num[k + 1] = 0 => EmittedTimes(k) = 0
  /\ Len(particles) * weights.num[k + 1] >= weights.den => EmittedTimes(k) >= 1

C30_PointerInRange ==
  Len(particles) >= 1 =>
     /\ pc # "IndexError"
     /\ pc \in {"resample_loop", "done"} =>
          /\ resample.k <= Len(particles) - 1
          /\ \A j \in DOMAIN resample.new_list_k :
                resample.new_list_k[j] \in 0..(Len(particles) - 1)
     /\ pc = "done" => Len(resample.new_list_k) = Len(particles)

====
